---- MODULE Spec2Model ----
(***************************************************************************)
(* Command playback engine and command converter of egotransfer:           *)
(*   backend/robot_playback_controller.py  RobotPlaybackController         *)
(*   backend/services/robot_service.py     RobotService                    *)
(*   backend/routes/robot_control.py       the /robot request handlers     *)
(*   backend/video_hand_processor.py       RobotPositionConverter          *)
(*   backend/services/hand_service.py      the conversion job              *)
(*   backend/Hand_to_robot.py              WristXYZController (live)       *)
(*                                                                         *)
(* One RobotPlaybackController instance is followed from the moment        *)
(* RobotService creates it.  Request handlers run the controller's         *)
(* blocking methods on executor threads (run_in_executor), so play(),      *)
(* home_robot(), load_commands(), stop() and pause() of different requests *)
(* interleave at the granularity of the controller's field reads/writes    *)
(* and actuator calls.  Python list indices are kept 0-based.              *)
(***************************************************************************)
EXTENDS Naturals, Integers, Sequences, FiniteSets, TLC

\* ------------------------------------------------------------------ bounds
\* longest command file that can be loaded
MaxCmds == 2

\* most frames of a tracking file
MaxFrames == 2

\* longest command list handed to smooth_commands/filter_minimal_movement
MaxSeq == 4

\* largest window_size of smooth_commands
MaxWindow == 3

\* last reading of the clock a live session is followed to, in tenths of a
\* second
MaxTime == 12

\* gripper calls a live session is followed for
MaxGrips == 3

\* request-handler threads that may exist (executor threads)
Workers == {1, 2}

\* ------------------------------------------------------------- data model
\* one record of the "commands" list of a command file
Cmd(k) == [x |-> 200 + k, y |-> 0, z |-> 150, r |-> 0, gripper |-> k % 2]

\* the content of the command file with n records
File(n) == [k \in 1..n |-> Cmd(k - 1)]

\* the command files that exist under processed/
Files == {File(n) : n \in 0..MaxCmds}

\* what a load request can name: a command file, a name no file has, a file
\* that is not JSON, or the file save_commands wrote last
Paths ==
  [kind : {"commands"}, list : Files] \cup
  [kind : {"missing", "garbled", "saved"}, list : {<< >>}]

VARIABLES
  handlers,               \* request handlers that overlap in this run
  svc,                    \* RobotService.controller: "none", "ctrl", "dropped"
  is_connected,           \* RobotPlaybackController.is_connected
  robot,                  \* RobotPlaybackController.robot: "None" or "dobot"
  commands,               \* RobotPlaybackController.commands
  current_command_index,  \* RobotPlaybackController.current_command_index
  is_playing,             \* RobotPlaybackController.is_playing
  is_paused,              \* RobotPlaybackController.is_paused
  pc,                     \* per handler: position in the code
  i,                      \* per handler: loop variable i of play()
  cmds,                   \* per handler: the list the for loop iterates
  loop,                   \* per handler: argument loop of play()
  ret,                    \* per handler: request served, its return value
                          \* and the message logged on return
  stopPc,                 \* position of the thread running stop()
  homed,                  \* history: home call of the current play()
  log,                    \* history: indices moved to in the current pass
  fault,                  \* history: actuator call that failed for good
  tries,                  \* history: calls of the current command and how
                          \* each ended
  stopAt,                 \* history: where play() was when stop() ran
  pauseAt,                \* history: where play() was when pause() took hold
  probe,                  \* the caller of connect/get_status/get_position:
                          \* the call in progress or made last, its result
  workspace,              \* RobotPositionConverter: x/y/z_min and _max
  frames,                 \* tracking_data['frames'], the target hand of each
  stage,                  \* the converter pass that ran last
  cmdsIn,                 \* the command list that pass was given
  cmdsOut,                \* the command list that pass returned
  disk,                   \* the command files save_commands wrote
  mapped,                 \* positions map_wrist_to_xyz returned, per frame
  window,                 \* window_size of the last smooth_commands call
  last_gripper_state,     \* HandToRobotController.last_gripper_state
  gripper_state_change_time,  \* its field of that name, in tenths of a second
  clock,                  \* time.time(), in tenths of a second
  livePc,                 \* position of the live loop in its frame
  is_hand_open,           \* live loop: is_hand_open of the frame
  current_time,           \* live loop: current_time of the frame
  grips                   \* history: gripper calls of the live loop

\* the fields of the playback engine and of its request handlers
playVars == << handlers, svc, is_connected, robot, commands,
               current_command_index, is_playing, is_paused, pc, i, cmds,
               loop, ret, stopPc, homed, log, fault, tries, stopAt, pauseAt >>

\* the state of the landmark-to-command converter
convVars ==
  << workspace, frames, stage, cmdsIn, cmdsOut, disk, mapped, window >>

\* the live control loop of Hand_to_robot.main
liveVars == << last_gripper_state, gripper_state_change_time, clock, livePc,
               is_hand_open, current_time, grips >>

vars == << playVars, probe, convVars, liveVars >>

ctrlVars == << is_connected, robot, commands, current_command_index,
               is_playing, is_paused >>

histVars == << homed, log, fault, tries, stopAt, pauseAt >>

\* positions at which an actuator call of the handler is in flight
HomePcs == {"home_call", "h_call"}
MovePcs == {"move", "move_alt"}
GripPcs == {"grip", "grip_alt"}
ActuatorPcs == HomePcs \cup MovePcs \cup GripPcs

\* positions inside _execute_command (move, gripper, pacing delay)
CommandPcs == MovePcs \cup GripPcs \cup {"pace"}

\* positions inside the playback loop of play()
LoopPcs == CommandPcs \cup
           {"check_playing", "check_paused", "paused_sleep", "set_index",
            "pass_end"}

\* positions of the loop "while self.is_paused"
PausePcs == {"check_paused", "paused_sleep"}

PlayPcs == LoopPcs \cup {"entry", "home_check", "home_call", "start"}

AllPcs == PlayPcs \cup {"idle", "h_check", "h_call", "done"}

\* ------------------------------------------------------- decisions in code
\* RobotService.is_connected: a controller exists and reports connected
ServiceConnected == svc = "ctrl" /\ is_connected

\* the guard "if not self.is_connected or not self.robot" of play/home_robot
NotConnected(conn, rob) == ~conn \/ rob = "None"

\* a play() that starts the loop without homing
PlayGuardNoHome(conn, rob, n) ==
  IF NotConnected(conn, rob) THEN "Robot not connected"
  ELSE IF n = 0 THEN "No commands loaded"
  ELSE "start"

\* a play() without the "if not self.commands" guard
PlayGuardNoEmptyCheck(conn, rob, n) ==
  IF NotConnected(conn, rob) THEN "Robot not connected"
  ELSE "home_check"

\* play(): what the two guards before the try block decide
\* (an error is logged and False returned, or play goes on to home_robot)
PlayGuard(conn, rob, n) ==
  IF NotConnected(conn, rob) THEN "Robot not connected"
  ELSE IF n = 0 THEN "No commands loaded"
  ELSE "home_check"

\* home_robot(): return value after self.robot.home() ended with `outcome`
\* ("ok": returned, "raised": raised).  The inner except logs a warning,
\* sleeps 3 s and falls through to "return True".
HomeRobotResult(outcome) == TRUE

\* a loop that never looks at is_playing
StoppedNever(playing) == FALSE

\* play(): "if not self.is_playing: return True"
Stopped(playing) == ~playing

\* a loop that never looks at is_paused
MustWaitNever(paused) == FALSE

\* play(): "while self.is_paused" decides whether the loop waits
MustWait(paused) == paused

\* an _execute_command that tries the other move shape after any failure
MoveOutcomeRetriesAlways(outcome) ==
  IF outcome = "ok" THEN "grip" ELSE "move_alt"

\* an _execute_command that treats a failed move like a failed gripper call
MoveOutcomeIgnoresError(outcome) ==
  IF outcome = "TypeError" THEN "move_alt" ELSE "grip"

\* _execute_command(): result after move_to(x, y, z, r, wait=True) ended
\* with `outcome`: "ok", "TypeError" (call shape rejected) or "IOError"
MoveOutcome(outcome) ==
  CASE outcome = "ok"        -> "grip"
    [] outcome = "TypeError" -> "move_alt"
    [] OTHER                 -> "fail"

\* _execute_command(): result after move_to(x, y, z, r) ended with `outcome`
MoveAltOutcome(outcome) == IF outcome = "ok" THEN "grip" ELSE "fail"

\* _execute_command(): result after grip(enable=...) ended with `outcome`
GripOutcome(outcome) == IF outcome = "ok" THEN "pace" ELSE "grip_alt"

\* _execute_command(): result after grip(True/False) ended with `outcome`;
\* the except clause only logs a warning
GripAltOutcome(outcome) == "pace"

\* a loop that skips every other element
NextIndexSkips(k) == k + 2

\* play(): the for loop moves on to the next list element
NextIndex(k) == k + 1

\* play(): after the for loop, loop decides between restart and return
AfterPass(lp) == IF lp THEN "restart" ELSE "return"

\* disconnect(): is_connected after robot.close() ended with `outcome`;
\* a raising close() skips both assignments of the try block
DisconnectConnected(conn, rob, outcome) ==
  IF rob # "None" /\ outcome = "raised" THEN conn ELSE FALSE

\* disconnect(): robot after robot.close() ended with `outcome`
DisconnectRobot(rob, outcome) ==
  IF rob # "None" /\ outcome = "raised" THEN rob ELSE "None"

\* ------------------------------------------ landmark-to-command converter
\* backend/video_hand_processor.py  RobotPositionConverter  (batch)
\* backend/Hand_to_robot.py         WristXYZController      (live)
\*
\* Units: normalized image coordinates in hundredths (100 is 1.0), the hand
\* span in thousandths, robot coordinates in hundredths of a millimetre (the
\* converter rounds to two decimals), time stamps and the landmark
\* visibility in hundredths.  Landmark k of a hand is element k + 1.

\* x_range, y_range, z_range of the constructors
DefaultWorkspace ==
  [x_min |-> 20000, x_max |-> 30000, y_min |-> -10000, y_max |-> 10000,
   z_min |-> 5000, z_max |-> 25000]

\* a workspace configured for another session
OtherWorkspace ==
  [x_min |-> 15050, x_max |-> 25025, y_min |-> -5000, y_max |-> 7500,
   z_min |-> 0, z_max |-> 10001]

Workspaces == {DefaultWorkspace, OtherWorkspace}

\* np.interp(hand_span, [0.08, 0.25], ...): the span domain, in thousandths
SpanNear == 80
SpanFar == 250

\* camera_bounds of the live controller, in hundredths
CamMin == 15
CamMax == 85

\* min_distance of filter_minimal_movement, in hundredths of a millimetre
MinDistance == 200

Min(a, b) == IF a < b THEN a ELSE b
Max(a, b) == IF a > b THEN a ELSE b

\* landmark k of hand_data
Lm(hand, k) == hand[k + 1]

\* the r in lo .. hi - 1 with r * r <= n < (r + 1) * (r + 1), by bisection
RECURSIVE SqrtBetween(_, _, _)
SqrtBetween(n, lo, hi) ==
  IF hi - lo <= 1 THEN lo
  ELSE LET mid == (lo + hi) \div 2
       IN IF mid * mid <= n THEN SqrtBetween(n, mid, hi)
          ELSE SqrtBetween(n, lo, mid)

\* np.sqrt, to the unit below: the floor of the square root of n
ISqrt(n) == SqrtBetween(n, 0, n + 1)

\* hand span: distance between thumb tip (4) and pinky tip (20), thousandths
HandSpan(hand) ==
  LET dx == Lm(hand, 4).x - Lm(hand, 20).x
      dy == Lm(hand, 4).y - Lm(hand, 20).y
  IN ISqrt(100 * (dx * dx + dy * dy))

\* an interpolation that extends the line beyond the end points
InterpExtends(v, x0, x1, f0, f1) == f0 * (x1 - x0) + (v - x0) * (f1 - f0)

\* np.interp(v, [x0, x1], [f0, f1]) times (x1 - x0): linear between the end
\* points, the end values outside
Interp(v, x0, x1, f0, f1) ==
  IF v <= x0 THEN f0 * (x1 - x0)
  ELSE IF v >= x1 THEN f1 * (x1 - x0)
  ELSE f0 * (x1 - x0) + (v - x0) * (f1 - f0)

\* round(n / d, 2) for n in hundredths: to the nearest hundredth, a value
\* half way between two to the even one (Python's rule)
Round2(n, d) ==
  LET q == n \div d
      rest == n - q * d
  IN IF 2 * rest < d THEN q
     ELSE IF 2 * rest > d THEN q + 1
     ELSE IF q % 2 = 0 THEN q ELSE q + 1

\* a depth mapping that is not inverted
DepthEndsSwapped(ws) == << ws.x_min, ws.x_max >>

\* the range the span is mapped to: [x_max, x_min], inverted
DepthEnds(ws) == << ws.x_max, ws.x_min >>

\* a lateral mapping that reads the wrist's y
LateralInputY(wrist) == wrist.y

\* the coordinate the lateral axis is mapped from: the wrist's x
LateralInput(wrist) == wrist.x

\* _calculate_hand_openness: the number of extended fingers
ExtendedFingers(hand) ==
  (IF Lm(hand, 4).x > Lm(hand, 2).x THEN 1 ELSE 0)
  + Cardinality({t \in {8, 12, 16, 20} : Lm(hand, t).y < Lm(hand, t - 2).y})

\* an openness test that takes no hand for open
HandNeverOpen(hand) == FALSE

\* _calculate_hand_openness / is_hand_open: openness > 0.6
HandOpen(hand) ==
  IF Len(hand) < 21 THEN FALSE ELSE ExtendedFingers(hand) * 10 > 5 * 6

\* convert_to_robot_commands: 'gripper': 1 if gripper_open else 0
GripperField(open) == IF open THEN 1 ELSE 0

\* convert_to_robot_commands: the command of one frame with a hand
RobotCommand(ws, frame) ==
  LET hand == frame.hand
      wrist == Lm(hand, 0)
  IN [frame |-> frame.frame_number,
      timestamp |-> frame.timestamp,
      x |-> Round2(Interp(HandSpan(hand), SpanNear, SpanFar,
                          DepthEnds(ws)[1], DepthEnds(ws)[2]),
                   SpanFar - SpanNear),
      y |-> Round2(Interp(LateralInput(wrist), 0, 100, ws.y_min, ws.y_max),
                   100),
      z |-> Round2(Interp(wrist.y, 0, 100, ws.z_max, ws.z_min), 100),
      r |-> 0,
      gripper |-> GripperField(HandOpen(hand)),
      confidence |-> wrist.visibility]

\* hand_data[k] exists; indexing past the end of the list raises IndexError
Indexable(hand, k) == k < Len(hand)

\* convert_to_robot_commands reads hand_data[0], [4] and [20] of a frame
\* that shows the hand before anything looks at the length of the list
FrameRaises(frame) ==
  /\ frame.hand # << >>
  /\ \E k \in {0, 4, 20} : ~Indexable(frame.hand, k)

\* convert_to_robot_commands has no try block: the IndexError of one frame
\* ends the whole call
ConvertRaises(fs) == \E k \in 1..Len(fs) : FrameRaises(fs[k])

\* "if not hand_data: continue"
HasHand(frame) == frame.hand # << >>

\* convert_to_robot_commands: one command per frame that shows the hand
ConvertToRobotCommands(ws, fs) ==
  LET shown == SelectSeq(fs, HasHand)
  IN [k \in 1..Len(shown) |-> RobotCommand(ws, shown[k])]

\* map_wrist_to_xyz: x, y, z as numerators over the denominators
\* xd = 170 (span domain) and yd = zd = 70 (camera bounds)
MapWristToXYZ(ws, wrist_x, wrist_y, hand) ==
  LET wx == Max(0, Min(100, wrist_x))
      wy == Max(0, Min(100, wrist_y))
      xd == SpanFar - SpanNear
      yd == CamMax - CamMin
      robot_y == Interp(wx, CamMin, CamMax, ws.y_min, ws.y_max)
      robot_z == Interp(wy, CamMin, CamMax, ws.z_max, ws.z_min)
      robot_x == Interp(HandSpan(hand), SpanNear, SpanFar,
                        DepthEnds(ws)[1], DepthEnds(ws)[2])
  IN [x |-> Max(ws.x_min * xd, Min(ws.x_max * xd, robot_x)), xd |-> xd,
      y |-> Max(ws.y_min * yd, Min(ws.y_max * yd, robot_y)), yd |-> yd,
      z |-> Max(ws.z_min * yd, Min(ws.z_max * yd, robot_z)), zd |-> yd]

\* the sum of field c of the commands lo .. hi of a list
RECURSIVE SumOf(_, _, _, _)
SumOf(list, c, lo, hi) ==
  IF lo > hi THEN 0 ELSE list[lo][c] + SumOf(list, c, lo + 1, hi)

\* a mean that divides by the nominal window size
DivisorNominal(n, window_size) == Max(1, 2 * (window_size \div 2) + 1)

\* smooth_commands: the mean divides by len(window), the commands the
\* slice really holds
Divisor(n, window_size) == n

\* smooth_commands: command k (1-based) of the smoothed list
SmoothedCommand(list, k, window_size) ==
  LET lo == Max(1, k - window_size \div 2)
      hi == Min(Len(list), k + window_size \div 2)
      d == Divisor(hi - lo + 1, window_size)
  IN [list[k] EXCEPT !.x = Round2(SumOf(list, "x", lo, hi), d),
                     !.y = Round2(SumOf(list, "y", lo, hi), d),
                     !.z = Round2(SumOf(list, "z", lo, hi), d)]

\* a smoothing that averages lists of every length
SmoothCommandsAlways(list, window_size) ==
  [k \in 1..Len(list) |-> SmoothedCommand(list, k, window_size)]

\* smooth_commands(commands, window_size)
SmoothCommands(list, window_size) ==
  IF Len(list) < window_size THEN list
  ELSE [k \in 1..Len(list) |-> SmoothedCommand(list, k, window_size)]

\* the square of the distance between two commands
Distance2(a, b) ==
  (a.x - b.x) * (a.x - b.x) + (a.y - b.y) * (a.y - b.y)
  + (a.z - b.z) * (a.z - b.z)

\* a filter that measures from the command before in the input
LastCmdPrevious(filtered, list, k) == list[k - 1]

\* filter_minimal_movement: last_cmd = filtered[-1]
LastCmd(filtered, list, k) == filtered[Len(filtered)]

\* a filter that looks at the distance only
KeepByDistance(cmd, last_cmd, min_distance) ==
  Distance2(cmd, last_cmd) >= min_distance * min_distance

\* a filter that keeps a command only beyond the threshold
KeepBeyond(cmd, last_cmd, min_distance) ==
  \/ Distance2(cmd, last_cmd) > min_distance * min_distance
  \/ cmd.gripper # last_cmd.gripper

\* filter_minimal_movement: "distance >= min_distance or the gripper
\* differs" (the distance is compared through its square)
Keep(cmd, last_cmd, min_distance) ==
  \/ Distance2(cmd, last_cmd) >= min_distance * min_distance
  \/ cmd.gripper # last_cmd.gripper

\* filter_minimal_movement: the loop over commands[1:], from element k on
RECURSIVE FilterFrom(_, _, _, _)
FilterFrom(list, k, filtered, min_distance) ==
  IF k > Len(list) THEN filtered
  ELSE FilterFrom(list, k + 1,
                  IF Keep(list[k], LastCmd(filtered, list, k), min_distance)
                  THEN Append(filtered, list[k]) ELSE filtered,
                  min_distance)

\* filter_minimal_movement(commands, min_distance)
FilterMinimalMovement(list, min_distance) ==
  IF list = << >> THEN list
  ELSE FilterFrom(list, 2, << list[1] >>, min_distance)

\* json.dump writing a float with one decimal
FloatTextOneDecimal(v) ==
  LET a == IF v < 0 THEN -v ELSE v
  IN [neg |-> v < 0, whole |-> a \div 100, frac |-> << (a % 100) \div 10 >>]

\* json.dump of a float (v hundredths): sign, integer digits, and the
\* decimals repr() prints, without a trailing zero
FloatText(v) ==
  LET a == IF v < 0 THEN -v ELSE v
      f == a % 100
  IN [neg |-> v < 0, whole |-> a \div 100,
      frac |-> IF f % 10 = 0 THEN << f \div 10 >>
               ELSE << f \div 10, f % 10 >>]

\* json.load of a float
FloatValue(t) ==
  LET a == t.whole * 100 + t.frac[1] * 10
           + (IF Len(t.frac) > 1 THEN t.frac[2] ELSE 0)
  IN IF t.neg THEN -a ELSE a

\* json.dump / json.load of an int
IntText(n) == [neg |-> n < 0, digits |-> IF n < 0 THEN -n ELSE n]

IntValue(t) == IF t.neg THEN -t.digits ELSE t.digits

\* json.dump of one command record
CommandText(c) ==
  [frame |-> IntText(c.frame), timestamp |-> FloatText(c.timestamp),
   x |-> FloatText(c.x), y |-> FloatText(c.y), z |-> FloatText(c.z),
   r |-> FloatText(c.r), gripper |-> IntText(c.gripper),
   confidence |-> FloatText(c.confidence)]

\* json.load of one command record
CommandValue(t) ==
  [frame |-> IntValue(t.frame), timestamp |-> FloatValue(t.timestamp),
   x |-> FloatValue(t.x), y |-> FloatValue(t.y), z |-> FloatValue(t.z),
   r |-> FloatValue(t.r), gripper |-> IntValue(t.gripper),
   confidence |-> FloatValue(t.confidence)]

\* save_commands: command_data
CommandData(ws, list, now) ==
  [metadata |-> [total_commands |-> Len(list), workspace |-> ws,
                 generated_at |-> now],
   commands |-> list]

\* json.dump(command_data, f)
JsonDump(data) ==
  [metadata |-> data.metadata,
   commands |-> [k \in 1..Len(data.commands) |->
                   CommandText(data.commands[k])]]

\* json.load(f)
JsonLoad(text) ==
  [metadata |-> text.metadata,
   commands |-> [k \in 1..Len(text.commands) |->
                   CommandValue(text.commands[k])]]

\* exceptions the actuator library and the file reader raise ("raised": any
\* other class); every one of them derives from Exception
ExceptionKinds ==
  {"TypeError", "AttributeError", "IOError", "JSONDecodeError", "raised"}

\* an except clause that catches only the very class it names
CatchesExactly(clause, exc) == clause = exc

\* "except <clause>:" catches exception exc
Catches(clause, exc) ==
  \/ clause = exc
  \/ clause = "Exception" /\ exc \in ExceptionKinds

\* a call that ended with `outcome` leaves the try statements around it,
\* whose except clauses are `clauses`, as an exception
Propagates(outcome, clauses) ==
  outcome # "ok" /\ \A c \in clauses : ~Catches(c, outcome)

\* connect(): what the caller gets after the Dobot(...) constructor calls
\* ended (`ok`: one of them returned a robot object)
ConnectResult(ok) ==
  IF ok THEN "true"
  ELSE IF Propagates("IOError", {"Exception"}) THEN "raised"
  ELSE "false"

\* load_commands(): what the caller gets for a path of kind `kind`
LoadCommandsResult(kind) ==
  CASE kind = "missing" -> "false"
    [] kind = "garbled" ->
         IF Propagates("JSONDecodeError", {"Exception"}) THEN "raised"
         ELSE "false"
    [] OTHER -> "true"

\* load_commands(): "if 'commands' in data" picks the list out of the file
LoadedCommands(data) ==
  IF "commands" \in DOMAIN data THEN data.commands ELSE data

\* get_position(): what the caller gets; o1 is the outcome of
\* robot.get_pose(), o2 that of the alternative robot.pose()
PositionResult(conn, rob, o1, o2) ==
  IF NotConnected(conn, rob) THEN "None"
  ELSE IF o1 = "ok" THEN "pose"
  ELSE IF Catches("AttributeError", o1)
    THEN IF o2 = "ok" THEN "pose"
         ELSE IF Catches("AttributeError", o2) THEN "default"
         ELSE IF Catches("Exception", o2) THEN "None"
         ELSE "raised"
  ELSE IF Catches("Exception", o1) THEN "None"
  ELSE "raised"

\* get_status(): 'progress' once the condition "if self.commands" held;
\* idx and n are the index and the length read after it (whole percent)
Progress(idx, n) == (idx * 100) \div n

\* --------------------------------------------------------------- helpers
\* the request of handler w returns value v
NoRequest == [req |-> "none", value |-> "none", msg |-> "none"]

\* the request of handler w returns value v after logging m
Return(w, v, m) ==
  /\ pc' = [pc EXCEPT ![w] = "done"]
  /\ ret' = [ret EXCEPT ![w].value = v, ![w].msg = m]

\* exception exc leaves the method handler w runs
Raise(w, exc) == Return(w, "raised", exc)

\* the caller of connect/get_status/get_position: not followed, idle
ProbeOff ==
  [op |-> "off", step |-> "none", value |-> "none", idx |-> 0,
   progress |-> 0, failed |-> FALSE]

ProbeIdle == [ProbeOff EXCEPT !.op = "none"]

\* the caller made call `op` and got `v`
Probed(op, v) ==
  IF probe.op = "off" THEN probe
  ELSE [ProbeIdle EXCEPT !.op = op, !.step = "done", !.value = v]

\* the next actuator call of _execute_command is issued; on a dropped robot
\* object (self.robot is None) it raises AttributeError at once: a gripper
\* call is then only logged, a move fails the command
Issue(next) ==
  IF robot # "None" THEN next
  ELSE IF next \in GripPcs THEN "pace"
  ELSE IF next \in MovePcs THEN "fail"
  ELSE next

\* The history variables are kept in runs with one request handler; with
\* overlapping handlers they stay at their initial values (they are read
\* by no action, and the claims about overlap do not need them).
Tracked == handlers = {1}

\* history variable h with the entry of handler w set to v
Note(h, w, v) == IF Tracked THEN [h EXCEPT ![w] = v] ELSE h

\* history: the calls of the current command of handler w are v; they are
\* kept in runs whose status caller is not followed
NoteCall(w, v) ==
  IF Tracked /\ probe.op = "off" THEN [tries EXCEPT ![w] = v] ELSE tries

\* history: with the robot object dropped, the call at `next` raises
\* AttributeError on self.robot, and so does the other gripper shape
Dropped(next) ==
  IF robot # "None" THEN << >>
  ELSE IF next = "grip"
  THEN << [call |-> "grip", result |-> "AttributeError"],
          [call |-> "grip_alt", result |-> "AttributeError"] >>
  ELSE IF next \in MovePcs \cup GripPcs
  THEN << [call |-> next, result |-> "AttributeError"] >>
  ELSE << >>

\* history: the call `call` of the current command ended with `outcome`,
\* and the call at `next` is issued
Tried(w, call, outcome, next) ==
  NoteCall(w, Append(tries[w], [call |-> call, result |-> outcome])
                \o Dropped(next))

\* history variable h set for every handler
NoteAll(h, f(_)) == IF Tracked THEN [w \in Workers |-> f(w)] ELSE h

\* the for loop of handler w has element k to work on
HasElement(w, k) == k < Len(cmds[w])

\* self.min_gripper_state_duration = 0.3, in tenths of a second
min_gripper_state_duration == 3

\* the first reading of time.time(): the clock counts from 1970, far more
\* than the dwell time before any session
Epoch == min_gripper_state_duration + 1

\* a live loop that lets a change through when the dwell time has just
\* elapsed
GripperDueAtDwell(last, open, now, since, dwell) ==
  last # open /\ now - since >= dwell

\* the live loop's test: the hand state differs from the last accepted
\* gripper state and more than the dwell time passed since that change
GripperDue(last, open, now, since, dwell) ==
  last # open /\ now - since > dwell

\* the argument of bot.grip: False opens the gripper, True closes it
GripArgument(open) == IF open = "True" THEN "False" ELSE "True"

\* command.get(key, default)
Get(command, key, default) ==
  IF key \in DOMAIN command THEN command[key] ELSE default

\* a gripper call that closes on 0
GripEnableOnZero(gripper) == gripper = 0

\* "if gripper:" picks grip(enable=True), which closes the gripper
GripEnable(gripper) == gripper # 0

\* the actuator call (or sleep) handler w has in progress: _execute_command
\* works on element i of the list the for loop iterates
Call(w) ==
  CASE pc[w] \in MovePcs ->
         LET command == cmds[w][i[w] + 1]
         IN [op |-> "move_to",
             at |-> << Get(command, "x", 250), Get(command, "y", 0),
                       Get(command, "z", 150), Get(command, "r", 0) >>]
    [] pc[w] \in GripPcs ->
         LET command == cmds[w][i[w] + 1]
         IN [op |-> "grip",
             enable |-> GripEnable(Get(command, "gripper", 0))]
    [] pc[w] = "pace" -> [op |-> "sleep"]
    [] pc[w] \in HomePcs -> [op |-> "home"]
    [] OTHER -> [op |-> "none"]

\* ------------------------------------------------- converter input sets
\* a landmark
P(x, y) == [x |-> x, y |-> y, visibility |-> 100]

\* the finger tips a hand of shape p extends (by the converter's rule)
Extended(p) ==
  CASE p = "open" -> {4, 8, 12, 16, 20}
    [] p = "four" -> {8, 12, 16, 20}
    [] p = "three" -> {4, 8, 12}
    [] OTHER -> {}

Shapes == {"fist", "level", "three", "four", "open"}

\* 21 landmarks: wrist at w (x, y, visibility), pinky tip s (dx, dy) away
\* from the thumb tip, fingers as shape p says.  A folded finger tip lies
\* below its joint in a "fist" and level with it in the shape "level".
MakeHand(w, s, p) ==
  LET fold == IF p = "fist" THEN 1 ELSE 0
      Tip(t) == IF t = 4 THEN P(50, 50)
                ELSE IF t = 20 THEN P(50 + s[1], 50 + s[2])
                ELSE P(45, 40)
      Joint(t) ==
        IF t = 4
        THEN P(IF t \in Extended(p) THEN Tip(t).x - 1 ELSE Tip(t).x + fold,
               50)
        ELSE P(Tip(t).x,
               IF t \in Extended(p) THEN Tip(t).y + 1 ELSE Tip(t).y - fold)
  IN [k \in 1..21 |->
        IF k = 1 THEN [x |-> w[1], y |-> w[2], visibility |-> w[3]]
        ELSE IF k - 1 \in {4, 8, 12, 16, 20} THEN Tip(k - 1)
        ELSE IF k + 1 \in {4, 8, 12, 16, 20} THEN Joint(k + 1)
        ELSE P(w[1], w[2])]

\* wrist positions, inside and outside the frame
Wrists ==
  {<< -10, 110, 100 >>, << 0, 0, 95 >>, << 15, 85, 100 >>, << 37, 62, 5 >>,
   << 50, 50, 87 >>, << 100, 100, 100 >>, << 110, -10, 100 >>}

\* thumb-to-pinky offsets: spans 0.05, 0.08, 0.10, 0.20, 0.25, 0.30
Spans ==
  {<< 5, 0 >>, << 8, 0 >>, << 6, 8 >>, << 20, 0 >>, << 25, 0 >>, << 30, 0 >>}

\* the hands a frame can show
Hands ==
  {MakeHand(w, << 6, 8 >>, "open") : w \in Wrists} \cup
  {MakeHand(<< 50, 50, 87 >>, sp, "open") : sp \in Spans} \cup
  {MakeHand(<< 50, 50, 87 >>, << 25, 0 >>, p) : p \in Shapes} \cup
  {MakeHand(<< -10, 110, 100 >>, << 30, 0 >>, "fist"),
   MakeHand(<< 110, -10, 100 >>, << 5, 0 >>, "four")}

\* frame k of a tracking file showing `hand` (<< >>: no hand detected)
Frame(k, hand) ==
  [frame_number |-> k - 1, timestamp |-> 3 * (k - 1), hand |-> hand]

\* the tracking file whose frame k shows h[k]
FrameList(h) == [k \in DOMAIN h |-> Frame(k, h[k])]

\* positions and gripper states of the commands handed to a pass directly
PassXs == {20000, 20100, 20200, 20300}

PassCommand(k, x, g) ==
  [frame |-> k - 1, timestamp |-> 3 * (k - 1), x |-> x, y |-> 0,
   z |-> 15000, r |-> 0, gripper |-> g, confidence |-> 100]

\* the command list with position c[k][1] and gripper c[k][2] in command k
CommandList(c) == [k \in DOMAIN c |-> PassCommand(k, c[k][1], c[k][2])]

\* ------------------------------------------------------------------ Init
InitCommon ==
  /\ svc = "none"
  /\ is_connected = FALSE
  /\ robot = "None"
  /\ commands = << >>
  /\ current_command_index = 0
  /\ is_playing = FALSE
  /\ is_paused = FALSE
  /\ pc = [w \in Workers |-> "idle"]
  /\ i = [w \in Workers |-> 0]
  /\ cmds = [w \in Workers |-> << >>]
  /\ loop = [w \in Workers |-> FALSE]
  /\ ret = [w \in Workers |-> NoRequest]
  /\ stopPc = "idle"
  /\ homed = [w \in Workers |-> "no"]
  /\ log = [w \in Workers |-> << >>]
  /\ fault = [w \in Workers |-> "no"]
  /\ tries = [w \in Workers |-> << >>]
  /\ stopAt = [w \in Workers |-> "no"]
  /\ pauseAt = [w \in Workers |-> "no"]

\* no conversion job has run
ConverterIdle ==
  /\ workspace = DefaultWorkspace
  /\ frames = << >>
  /\ stage = "off"
  /\ cmdsIn = << >>
  /\ cmdsOut = << >>
  /\ disk = << >>
  /\ mapped = << >>
  /\ window = 0

\* HandToRobotController.__init__: no gripper state accepted yet
NoGripperState ==
  /\ last_gripper_state = "None"
  /\ gripper_state_change_time = 0
  /\ clock = Epoch
  /\ is_hand_open = "None"
  /\ current_time = 0
  /\ grips = << >>

\* no live session runs
LiveOff == NoGripperState /\ livePc = "off"

\* one request handler at a time (a sequential client), control requests
\* arrive concurrently
Init ==
  InitCommon /\ handlers = {1} /\ probe = ProbeOff /\ ConverterIdle /\ LiveOff

\* overlapping request handlers, as the asynchronous routes allow
InitService ==
  /\ InitCommon /\ handlers = Workers /\ probe = ProbeOff /\ ConverterIdle
  /\ LiveOff

\* one request handler at a time, and a caller of connect(), get_status()
\* and get_position() whose results are followed
InitCalls ==
  /\ InitCommon /\ handlers = {1} /\ probe = ProbeIdle /\ ConverterIdle
  /\ LiveOff

\* a connected engine with one request handler and nothing loaded
EngineConnected ==
  /\ handlers = {1}
  /\ svc = "ctrl"
  /\ is_connected = TRUE
  /\ robot = "dobot"
  /\ commands = << >>
  /\ current_command_index = 0
  /\ is_playing = FALSE
  /\ is_paused = FALSE
  /\ pc = [w \in Workers |-> "idle"]
  /\ i = [w \in Workers |-> 0]
  /\ cmds = [w \in Workers |-> << >>]
  /\ loop = [w \in Workers |-> FALSE]
  /\ ret = [w \in Workers |-> NoRequest]
  /\ stopPc = "idle"
  /\ homed = [w \in Workers |-> "no"]
  /\ log = [w \in Workers |-> << >>]
  /\ fault = [w \in Workers |-> "no"]
  /\ tries = [w \in Workers |-> << >>]
  /\ stopAt = [w \in Workers |-> "no"]
  /\ pauseAt = [w \in Workers |-> "no"]
  /\ probe = ProbeOff

\* a tracking file is there: a conversion job ("tracked") or a live session
\* ("live") is about to work on its frames, next to a connected engine
InitPipeline ==
  /\ EngineConnected
  /\ workspace \in Workspaces
  /\ \E n \in 1..MaxFrames : \E h \in [1..n -> Hands \cup {<< >>}] :
       frames = FrameList(h)
  /\ stage \in {"tracked", "live"}
  /\ cmdsIn = << >>
  /\ cmdsOut = << >>
  /\ disk = << >>
  /\ mapped = << >>
  /\ window = 0
  /\ LiveOff

\* a command list is handed to the sequence passes of the converter
InitPasses ==
  /\ EngineConnected
  /\ workspace = DefaultWorkspace
  /\ frames = << >>
  /\ stage = "converted"
  /\ cmdsIn = << >>
  /\ \E n \in 0..MaxSeq : \E c \in [1..n -> PassXs \X {0, 1}] :
       cmdsOut = CommandList(c)
  /\ disk = << >>
  /\ mapped = << >>
  /\ window = 0
  /\ LiveOff

\* the hand of a recording made at one place: wrist at (0.5, 0.5), span 0.25;
\* "short": a detection cut off after 20 landmarks, "stub": after 3
RecordedHand(p) ==
  CASE p = "short" -> SubSeq(MakeHand(<< 50, 50, 100 >>, << 25, 0 >>, "open"),
                             1, 20)
    [] p = "stub" -> SubSeq(MakeHand(<< 50, 50, 100 >>, << 25, 0 >>, "open"),
                            1, 3)
    [] OTHER -> MakeHand(<< 50, 50, 100 >>, << 25, 0 >>, p)

\* a recording of five frames: a closed fist in frames 0-2, an open hand in
\* frames 3-4
FistThenOpen == << "fist", "fist", "fist", "open", "open" >>

\* a five-frame recording made at one place is about to be converted with
\* the default workspace (a fist, an open hand or a cut-off detection in each
\* frame), or a live session maps its frames (the tracker hands the live
\* loop 21 landmarks for every hand)
InitRecording ==
  /\ EngineConnected
  /\ workspace = DefaultWorkspace
  /\ \/ /\ stage = "tracked"
        /\ \E p \in [DOMAIN FistThenOpen ->
                       {"fist", "open", "short", "stub"}] :
             frames = FrameList([k \in DOMAIN p |-> RecordedHand(p[k])])
     \/ /\ stage = "live"
        /\ \E p \in [DOMAIN FistThenOpen -> {"fist", "open"}] :
             frames = FrameList([k \in DOMAIN p |-> RecordedHand(p[k])])
  /\ cmdsIn = << >>
  /\ cmdsOut = << >>
  /\ disk = << >>
  /\ mapped = << >>
  /\ window = 0
  /\ LiveOff

\* the live control loop is about to read its first frame
InitLive ==
  /\ EngineConnected
  /\ ConverterIdle
  /\ NoGripperState
  /\ livePc = "frame"

\* ------------------------------------------------- RobotService requests
\* RobotService.connect (under the service lock): creates the controller on
\* first use and runs RobotPlaybackController.connect; `ok` is whether a
\* Dobot(...) constructor call succeeded.  A dropped controller is not
\* followed any further: a later connect builds a new instance.
Connect(ok) ==
  /\ svc \in {"none", "ctrl"}
  /\ probe.step \in {"none", "done"}
  /\ svc' = "ctrl"
  /\ is_connected' = IF ConnectResult(ok) = "raised" THEN is_connected ELSE ok
  /\ robot' = IF ok THEN "dobot" ELSE robot
  /\ probe' = Probed("connect", ConnectResult(ok))
  /\ UNCHANGED << convVars, liveVars, handlers, commands, current_command_index,
                  is_playing, is_paused, pc, i, cmds, loop, ret, stopPc,
                  histVars >>

\* RobotService.disconnect (under the service lock) around
\* RobotPlaybackController.disconnect; `outcome` is that of robot.close()
Disconnect(outcome) ==
  /\ svc = "ctrl"
  /\ is_connected' = DisconnectConnected(is_connected, robot, outcome)
  /\ robot' = DisconnectRobot(robot, outcome)
  /\ svc' = "dropped"
  /\ UNCHANGED << probe, convVars, liveVars, handlers, commands, current_command_index, is_playing,
                  is_paused, pc, i, cmds, loop, ret, stopPc, histVars >>

\* RobotService.load_commands + RobotPlaybackController.load_commands
LoadCommands(w, f) ==
  /\ w \in handlers /\ pc[w] = "idle"
  /\ ServiceConnected
  /\ f.kind = "saved" => Len(disk) > 0
  /\ LET r == LoadCommandsResult(f.kind) IN
       /\ commands' = IF r # "true" THEN commands
                      ELSE IF f.kind = "saved"
                        THEN LoadedCommands(JsonLoad(disk[1]))
                      ELSE LoadedCommands([commands |-> f.list])
       /\ current_command_index' = IF r = "true" THEN 0
                                   ELSE current_command_index
       /\ pc' = [pc EXCEPT ![w] = "done"]
       /\ ret' = [ret EXCEPT ![w] =
                    [req |-> "load", value |-> r, msg |-> f.kind]]
  /\ UNCHANGED << probe, convVars, liveVars, handlers, svc, is_connected, robot,
                  is_playing, is_paused, i, cmds, loop, stopPc, histVars >>

\* RobotService.play up to run_in_executor(controller.play, speed, loop)
PlayRequest(w, lp) ==
  /\ w \in handlers /\ pc[w] = "idle"
  /\ ServiceConnected
  /\ pc' = [pc EXCEPT ![w] = "entry"]
  /\ loop' = [loop EXCEPT ![w] = lp]
  /\ ret' = [ret EXCEPT ![w].req = "play"]
  /\ UNCHANGED << probe, convVars, liveVars, handlers, svc, ctrlVars, i, cmds, stopPc, histVars >>

\* RobotService.home up to run_in_executor(controller.home_robot)
HomeRequest(w) ==
  /\ w \in handlers /\ pc[w] = "idle"
  /\ ServiceConnected
  /\ pc' = [pc EXCEPT ![w] = "h_check"]
  /\ ret' = [ret EXCEPT ![w].req = "home"]
  /\ UNCHANGED << probe, convVars, liveVars, handlers, svc, ctrlVars, i, cmds, loop, stopPc, histVars >>

\* the handler sends its response; its thread-local state is gone
Respond(w) ==
  /\ pc[w] = "done"
  /\ pc' = [pc EXCEPT ![w] = "idle"]
  /\ ret' = [ret EXCEPT ![w] = NoRequest]
  /\ i' = [i EXCEPT ![w] = 0]
  /\ cmds' = [cmds EXCEPT ![w] = << >>]
  /\ loop' = [loop EXCEPT ![w] = FALSE]
  /\ homed' = Note(homed, w, "no")
  /\ log' = Note(log, w, << >>)
  /\ fault' = Note(fault, w, "no")
  /\ tries' = NoteCall(w, << >>)
  /\ stopAt' = Note(stopAt, w, "no")
  /\ pauseAt' = Note(pauseAt, w, "no")
  /\ UNCHANGED << probe, convVars, liveVars, handlers, svc, ctrlVars, stopPc >>

\* where the playback of handler w stands, as pause()/stop() finds it
Where(w) ==
  CASE pc[w] \in CommandPcs -> "command"
    [] pc[w] = "set_index" -> "polled"
    [] pc[w] \in LoopPcs -> "polling"
    [] pc[w] \in PlayPcs -> "homing"
    [] OTHER -> "no"

\* history: a stop() that came during a command stays on record, and so
\* does the record of a play() that has returned
StopWhere(w) ==
  IF stopAt[w] = "command" \/ pc[w] \notin PlayPcs THEN stopAt[w]
  ELSE IF is_paused /\ pc[w] \in PausePcs THEN "paused"
  ELSE Where(w)

\* history: where pause() finds a running play()
PauseWhere(w) == IF pc[w] \in PlayPcs THEN Where(w) ELSE pauseAt[w]

NoWhere(w) == "no"

\* history: resume() released a loop that pause() held mid-sequence
ResumeWhere(w) ==
  IF pc[w] \notin PlayPcs THEN pauseAt[w]
  ELSE IF pauseAt[w] \in {"polling", "polled", "command"} THEN "resumed"
  ELSE "no"

\* ------------------------------------------- RobotPlaybackController.play
\* the guards before the try block
PlayEntry(w) ==
  /\ pc[w] = "entry"
  /\ LET g == PlayGuard(is_connected, robot, Len(commands)) IN
       IF g \notin AllPcs
       THEN Return(w, "false", g)
       ELSE /\ pc' = [pc EXCEPT ![w] = g]
            /\ UNCHANGED ret
  /\ UNCHANGED << probe, convVars, liveVars, handlers, svc, ctrlVars, i, cmds, loop, stopPc, histVars >>

\* home_robot(): the connection guard, then self.robot.home() is issued
HomeCheck(w) ==
  /\ pc[w] \in {"home_check", "h_check"}
  /\ IF NotConnected(is_connected, robot)
     THEN Return(w, "false", "Robot not connected")
     ELSE /\ pc' = [pc EXCEPT ![w] =
                      IF pc[w] = "home_check" THEN "home_call" ELSE "h_call"]
          /\ UNCHANGED ret
  /\ UNCHANGED << probe, convVars, liveVars, handlers, svc, ctrlVars, i, cmds, loop, stopPc, histVars >>

\* home_robot(): self.robot.home() (and the wait for it) ends with `outcome`
HomeReturn(w, outcome) ==
  /\ pc[w] \in HomePcs
  /\ homed' = IF pc[w] = "h_call" THEN homed ELSE Note(homed, w, outcome)
  /\ IF Propagates(outcome, {"Exception"})
     THEN Raise(w, outcome)
     ELSE IF ~HomeRobotResult(outcome)
     THEN Return(w, "false", "Failed to home robot")
     ELSE IF pc[w] = "h_call"
     THEN Return(w, "true", "Robot homed successfully")
     ELSE /\ pc' = [pc EXCEPT ![w] = "start"]
          /\ UNCHANGED ret
  /\ UNCHANGED << probe, convVars, liveVars, handlers, svc, ctrlVars, i, cmds, loop, stopPc, log,
                  fault, tries, stopAt, pauseAt >>

\* the loop restarts on the list self.commands names now
EnterPass(w) ==
  /\ cmds' = [cmds EXCEPT ![w] = commands]
  /\ i' = [i EXCEPT ![w] = 0]
  /\ log' = Note(log, w, << >>)
  /\ pc' = [pc EXCEPT ![w] =
              IF Len(commands) > 0 THEN "check_playing" ELSE "pass_end"]

\* is_playing = True; is_paused = False; the for loop starts
Start(w) ==
  /\ pc[w] = "start"
  /\ is_playing' = TRUE
  /\ is_paused' = FALSE
  /\ pauseAt' = NoteAll(pauseAt, NoWhere)
  /\ EnterPass(w)
  /\ UNCHANGED << probe, convVars, liveVars, handlers, svc, is_connected, robot, commands,
                  current_command_index, loop, ret, stopPc, homed, fault, tries,
                  stopAt >>

\* "if not self.is_playing: return True" at the top of the loop body
CheckPlaying(w) ==
  /\ pc[w] = "check_playing"
  /\ IF Stopped(is_playing)
     THEN Return(w, "true", "Playback stopped")
     ELSE /\ pc' = [pc EXCEPT ![w] = "check_paused"]
          /\ UNCHANGED ret
  /\ UNCHANGED << probe, convVars, liveVars, handlers, svc, ctrlVars, i, cmds, loop, stopPc, histVars >>

\* "while self.is_paused"
CheckPaused(w) ==
  /\ pc[w] = "check_paused"
  /\ pc' = [pc EXCEPT ![w] =
              IF MustWait(is_paused) THEN "paused_sleep" ELSE "set_index"]
  /\ UNCHANGED << probe, convVars, liveVars, handlers, svc, ctrlVars, i, cmds, loop, ret, stopPc,
                  histVars >>

\* time.sleep(0.1), then "if not self.is_playing: return True"
PausedSleep(w) ==
  /\ pc[w] = "paused_sleep"
  /\ IF Stopped(is_playing)
     THEN Return(w, "true", "Playback stopped")
     ELSE /\ pc' = [pc EXCEPT ![w] = "check_paused"]
          /\ UNCHANGED ret
  /\ UNCHANGED << probe, convVars, liveVars, handlers, svc, ctrlVars, i, cmds, loop, stopPc, histVars >>

\* play() after _execute_command returned False
FailCommand(w) ==
  /\ is_playing' = FALSE
  /\ Return(w, "false", "Failed to execute command")

\* self.current_command_index = i, then _execute_command issues
\* move_to(x, y, z, r, wait=True)
SetIndex(w) ==
  /\ pc[w] = "set_index"
  /\ current_command_index' = i[w]
  /\ IF Issue("move") = "fail"
     THEN /\ FailCommand(w)
          /\ UNCHANGED log
     ELSE /\ pc' = [pc EXCEPT ![w] = "move"]
          /\ log' = Note(log, w, Append(log[w], i[w]))
          /\ UNCHANGED << is_playing, ret >>
  /\ pauseAt' = Note(pauseAt, w, IF pauseAt[w] = "polled" THEN "command"
                                 ELSE pauseAt[w])
  /\ stopAt' = Note(stopAt, w, IF stopAt[w] = "polled" THEN "command"
                               ELSE stopAt[w])
  /\ UNCHANGED << probe, convVars, liveVars, handlers, svc, is_connected, robot, commands, is_paused,
                  i, cmds, loop, stopPc, homed, fault >>
  /\ tries' = NoteCall(w, Dropped("move"))

\* what follows a move call that ended in `to`
AfterMove(w, to) ==
  IF Issue(to) = "fail"
  THEN FailCommand(w)
  ELSE /\ pc' = [pc EXCEPT ![w] = Issue(to)]
       /\ UNCHANGED << is_playing, ret >>

\* the exception of an actuator call leaves play()
RaiseFromPlay(w, exc) == Raise(w, exc) /\ UNCHANGED is_playing

\* move_to(x, y, z, r, wait=True) ends with `outcome`
MoveReturn(w, outcome) ==
  /\ pc[w] = "move"
  /\ IF Propagates(outcome, {"TypeError", "Exception"})
     THEN RaiseFromPlay(w, outcome)
     ELSE AfterMove(w, MoveOutcome(outcome))
  /\ fault' = Note(fault, w, IF outcome = "IOError" THEN "move" ELSE fault[w])
  /\ tries' = Tried(w, "move", outcome, MoveOutcome(outcome))
  /\ UNCHANGED << probe, convVars, liveVars, handlers, svc, is_connected, robot, commands,
                  current_command_index, is_paused, i, cmds, loop, stopPc,
                  homed, log, stopAt, pauseAt >>

\* move_to(x, y, z, r) ends with `outcome`
MoveAltReturn(w, outcome) ==
  /\ pc[w] = "move_alt"
  /\ IF Propagates(outcome, {"Exception"})
     THEN RaiseFromPlay(w, outcome)
     ELSE AfterMove(w, MoveAltOutcome(outcome))
  /\ fault' = Note(fault, w, IF outcome = "IOError" THEN "move" ELSE fault[w])
  /\ tries' = Tried(w, "move_alt", outcome, MoveAltOutcome(outcome))
  /\ UNCHANGED << probe, convVars, liveVars, handlers, svc, is_connected, robot, commands,
                  current_command_index, is_paused, i, cmds, loop, stopPc,
                  homed, log, stopAt, pauseAt >>

\* grip(enable=...) ends with `outcome`
GripReturn(w, outcome) ==
  /\ pc[w] = "grip"
  /\ IF Propagates(outcome, {"Exception"})
     THEN Raise(w, outcome)
     ELSE /\ pc' = [pc EXCEPT ![w] = Issue(GripOutcome(outcome))]
          /\ UNCHANGED ret
  /\ tries' = Tried(w, "grip", outcome, GripOutcome(outcome))
  /\ UNCHANGED << probe, convVars, liveVars, handlers, svc, ctrlVars, i, cmds, loop,
                  stopPc, homed, log, fault, stopAt, pauseAt >>

\* grip(True/False) ends with `outcome`
GripAltReturn(w, outcome) ==
  /\ pc[w] = "grip_alt"
  /\ IF Propagates(outcome, {"Exception"})
     THEN RaiseFromPlay(w, outcome)
     ELSE IF GripAltOutcome(outcome) = "fail"
     THEN FailCommand(w)
     ELSE /\ pc' = [pc EXCEPT ![w] = "pace"]
          /\ UNCHANGED << is_playing, ret >>
  /\ fault' = Note(fault, w, IF outcome = "raised" THEN "grip" ELSE fault[w])
  /\ tries' = Tried(w, "grip_alt", outcome, GripAltOutcome(outcome))
  /\ UNCHANGED << probe, convVars, liveVars, handlers, svc, is_connected, robot, commands,
                  current_command_index, is_paused, i, cmds, loop, stopPc,
                  homed, log, stopAt, pauseAt >>

\* time.sleep(duration) ends, _execute_command returns True and the for
\* loop takes the next element
PaceDone(w) ==
  /\ pc[w] = "pace"
  /\ i' = [i EXCEPT ![w] = NextIndex(@)]
  /\ pc' = [pc EXCEPT ![w] =
              IF HasElement(w, NextIndex(i[w])) THEN "check_playing"
              ELSE "pass_end"]
  /\ tries' = NoteCall(w, << >>)
  /\ UNCHANGED << probe, convVars, liveVars, handlers, svc, ctrlVars, cmds,
                  loop, ret, stopPc, homed, log, fault, stopAt, pauseAt >>

\* the for loop is exhausted: "if not loop: break", else index 0 and again
PassEnd(w) ==
  /\ pc[w] = "pass_end"
  /\ IF AfterPass(loop[w]) = "restart"
     THEN /\ current_command_index' = 0
          /\ EnterPass(w)
          /\ UNCHANGED << is_playing, ret >>
     ELSE /\ is_playing' = FALSE
          /\ Return(w, "true", "Playback completed")
          /\ UNCHANGED << current_command_index, i, cmds, log >>
  /\ UNCHANGED << probe, convVars, liveVars, handlers, svc, is_connected, robot, commands, is_paused,
                  loop, stopPc, homed, fault, tries, stopAt, pauseAt >>

\* ------------------------------------------------------- control channel
\* RobotService.pause -> RobotPlaybackController.pause
Pause ==
  /\ svc = "ctrl"
  /\ is_paused' = TRUE
  /\ pauseAt' = IF is_paused THEN pauseAt ELSE NoteAll(pauseAt, PauseWhere)
  /\ UNCHANGED << probe, convVars, liveVars, handlers, svc, is_connected, robot, commands,
                  current_command_index, is_playing, pc, i, cmds, loop, ret,
                  stopPc, homed, log, fault, tries, stopAt >>

\* RobotPlaybackController.resume
Resume ==
  /\ is_paused
  /\ is_paused' = FALSE
  /\ pauseAt' = NoteAll(pauseAt, ResumeWhere)
  /\ UNCHANGED << probe, convVars, liveVars, handlers, svc, is_connected, robot, commands,
                  current_command_index, is_playing, pc, i, cmds, loop, ret,
                  stopPc, homed, log, fault, tries, stopAt >>

\* RobotService.stop -> RobotPlaybackController.stop: self.is_playing = False
StopPlaying ==
  /\ svc = "ctrl"
  /\ stopPc = "idle"
  /\ stopPc' = "clear_paused"
  /\ is_playing' = FALSE
  /\ stopAt' = NoteAll(stopAt, StopWhere)
  /\ UNCHANGED << probe, convVars, liveVars, handlers, svc, is_connected, robot, commands,
                  current_command_index, is_paused, pc, i, cmds, loop, ret,
                  homed, log, fault, tries, pauseAt >>

\* RobotPlaybackController.stop: self.is_paused = False
StopPaused ==
  /\ stopPc = "clear_paused"
  /\ stopPc' = "idle"
  /\ is_paused' = FALSE
  /\ pauseAt' = NoteAll(pauseAt, NoWhere)
  /\ UNCHANGED << probe, convVars, liveVars, handlers, svc, is_connected, robot, commands,
                  current_command_index, is_playing, pc, i, cmds, loop, ret,
                  homed, log, fault, tries, stopAt >>

\* --------------------------------------------------- status and position
\* get_status() up to the condition of 'progress': "if self.commands"
GetStatusCond ==
  /\ probe.op # "off" /\ probe.step \in {"none", "done"}
  /\ svc = "ctrl"
  /\ probe' = IF Len(commands) = 0
              THEN [ProbeIdle EXCEPT !.op = "get_status", !.step = "done",
                                     !.value = "status"]
              ELSE [ProbeIdle EXCEPT !.op = "get_status", !.step = "index"]
  /\ UNCHANGED << playVars, convVars, liveVars >>

\* get_status(): self.current_command_index is read
GetStatusIndex ==
  /\ probe.step = "index"
  /\ probe' = [probe EXCEPT !.idx = current_command_index, !.step = "len"]
  /\ UNCHANGED << playVars, convVars, liveVars >>

\* get_status(): len(self.commands) is read and divided by; a length of 0
\* raises ZeroDivisionError, which nothing in get_status catches
GetStatusLen ==
  /\ probe.step = "len"
  /\ probe' = IF Len(commands) = 0
              THEN [probe EXCEPT !.step = "done", !.value = "raised"]
              ELSE [probe EXCEPT !.step = "done", !.value = "status",
                                 !.progress = Progress(probe.idx,
                                                       Len(commands))]
  /\ UNCHANGED << playVars, convVars, liveVars >>

\* get_position(); o1, o2: outcomes of robot.get_pose() and robot.pose()
GetPosition(o1, o2) ==
  /\ probe.op # "off" /\ probe.step \in {"none", "done"}
  /\ svc = "ctrl"
  /\ probe' = [ProbeIdle EXCEPT
                 !.op = "get_position", !.step = "done",
                 !.value = PositionResult(is_connected, robot, o1, o2),
                 !.failed = /\ ~NotConnected(is_connected, robot)
                            /\ o1 # "ok"
                            /\ (o1 = "AttributeError" => o2 # "ok")]
  /\ UNCHANGED << playVars, convVars, liveVars >>

\* ----------------------------------------------------- converter passes
\* convert_to_robot_commands(tracking_data, target_hand)
Convert ==
  /\ stage = "tracked"
  /\ stage' = IF ConvertRaises(frames) THEN "failed" ELSE "converted"
  /\ cmdsIn' = << >>
  /\ cmdsOut' = IF ConvertRaises(frames) THEN << >>
                ELSE ConvertToRobotCommands(workspace, frames)
  /\ UNCHANGED << playVars, probe, liveVars, workspace, frames, disk, mapped,
                  window >>

\* smooth_commands(commands, window_size)
Smooth(window_size) ==
  /\ stage = "converted"
  /\ stage' = "smoothed"
  /\ cmdsIn' = cmdsOut
  /\ cmdsOut' = SmoothCommands(cmdsOut, window_size)
  /\ window' = window_size
  /\ UNCHANGED << playVars, probe, liveVars, workspace, frames, disk, mapped >>

\* filter_minimal_movement(commands)
Filter ==
  /\ stage \in {"converted", "smoothed"}
  /\ stage' = "filtered"
  /\ cmdsIn' = cmdsOut
  /\ cmdsOut' = FilterMinimalMovement(cmdsOut, MinDistance)
  /\ UNCHANGED << playVars, probe, liveVars, workspace, frames, disk, mapped,
                  window >>

\* save_commands(commands, output_path) at time `now`
SaveCommands(now) ==
  /\ stage = "filtered"
  /\ stage' = "saved"
  /\ disk' = << JsonDump(CommandData(workspace, cmdsOut, now)) >>
  /\ UNCHANGED << playVars, probe, liveVars, workspace, frames, cmdsIn, cmdsOut,
                  mapped, window >>

\* the live loop maps the wrist of the next frame that shows a hand
MapFrame ==
  /\ stage = "live"
  /\ LET shown == SelectSeq(frames, HasHand) IN
       /\ Len(mapped) < Len(shown)
       /\ LET f == shown[Len(mapped) + 1] IN
            mapped' = Append(mapped,
                             [frame |-> f.frame_number,
                              at |-> MapWristToXYZ(workspace,
                                                   Lm(f.hand, 0).x,
                                                   Lm(f.hand, 0).y,
                                                   f.hand)])
  /\ UNCHANGED << playVars, probe, liveVars, workspace, frames, stage, cmdsIn,
                  cmdsOut, disk, window >>

\* ------------------------------------------------- the live control loop
\* time passes
Tick ==
  /\ clock < MaxTime
  /\ clock' = clock + 1
  /\ UNCHANGED << playVars, probe, convVars, last_gripper_state,
                  gripper_state_change_time, livePc, is_hand_open,
                  current_time, grips >>

\* a frame shows a hand: is_hand_open = controller.is_hand_open(...),
\* current_time = time.time()
ReadHand(open) ==
  /\ livePc = "frame"
  /\ Len(grips) < MaxGrips
  /\ is_hand_open' = open
  /\ current_time' = clock
  /\ livePc' = "gate"
  /\ UNCHANGED << playVars, probe, convVars, last_gripper_state,
                  gripper_state_change_time, clock, grips >>

\* "Handle gripper control": the test before the gripper call
GripperGate ==
  /\ livePc = "gate"
  /\ livePc' = IF GripperDue(last_gripper_state, is_hand_open, current_time,
                             gripper_state_change_time,
                             min_gripper_state_duration)
               THEN "grip" ELSE "frame"
  /\ UNCHANGED << playVars, probe, convVars, last_gripper_state,
                  gripper_state_change_time, clock, is_hand_open,
                  current_time, grips >>

\* bot.grip(False) for an open hand, bot.grip(True) for a closed one, ends
\* with `outcome`; the two assignments follow an accepted call only
LiveGripReturn(outcome) ==
  /\ livePc = "grip"
  /\ livePc' = "frame"
  /\ grips' = Append(grips, [enable |-> GripArgument(is_hand_open),
                             state |-> is_hand_open,
                             time |-> current_time,
                             result |-> outcome])
  /\ last_gripper_state' =
       IF outcome = "ok" THEN is_hand_open ELSE last_gripper_state
  /\ gripper_state_change_time' =
       IF outcome = "ok" THEN current_time ELSE gripper_state_change_time
  /\ UNCHANGED << playVars, probe, convVars, clock, is_hand_open,
                  current_time >>

\* the path of the file save_commands wrote
SavedPath == [kind |-> "saved", list |-> << >>]

\* ------------------------------------------------------------------ Next
Next ==
  \/ \E ok \in BOOLEAN : Connect(ok)
  \/ \E o \in {"ok", "raised"} : Disconnect(o)
  \/ \E w \in Workers, f \in Paths : LoadCommands(w, f)
  \/ \E w \in Workers, lp \in BOOLEAN : PlayRequest(w, lp)
  \/ \E w \in Workers : HomeRequest(w)
  \/ \E w \in Workers : Respond(w)
  \/ \E w \in Workers : PlayEntry(w)
  \/ \E w \in Workers : HomeCheck(w)
  \/ \E w \in Workers, o \in {"ok", "raised"} : HomeReturn(w, o)
  \/ \E w \in Workers : Start(w)
  \/ \E w \in Workers : CheckPlaying(w)
  \/ \E w \in Workers : CheckPaused(w)
  \/ \E w \in Workers : PausedSleep(w)
  \/ \E w \in Workers : SetIndex(w)
  \/ \E w \in Workers, o \in {"ok", "TypeError", "IOError"} : MoveReturn(w, o)
  \/ \E w \in Workers, o \in {"ok", "IOError"} : MoveAltReturn(w, o)
  \/ \E w \in Workers, o \in {"ok", "raised"} : GripReturn(w, o)
  \/ \E w \in Workers, o \in {"ok", "raised"} : GripAltReturn(w, o)
  \/ \E w \in Workers : PaceDone(w)
  \/ \E w \in Workers : PassEnd(w)
  \/ Pause
  \/ Resume
  \/ StopPlaying
  \/ StopPaused

\* the engine behind one request handler and the control channel
Spec == Init /\ [][Next]_vars

\* the engine behind overlapping request handlers
SpecService == InitService /\ [][Next]_vars

\* a step of the executor thread that runs the request of handler w: the
\* thread is scheduled, its sleeps end and its actuator calls return
Step(w) ==
  \/ PlayEntry(w)
  \/ HomeCheck(w)
  \/ \E o \in {"ok", "raised"} : HomeReturn(w, o)
  \/ Start(w)
  \/ CheckPlaying(w)
  \/ CheckPaused(w)
  \/ PausedSleep(w)
  \/ SetIndex(w)
  \/ \E o \in {"ok", "TypeError", "IOError"} : MoveReturn(w, o)
  \/ \E o \in {"ok", "IOError"} : MoveAltReturn(w, o)
  \/ \E o \in {"ok", "raised"} : GripReturn(w, o)
  \/ \E o \in {"ok", "raised"} : GripAltReturn(w, o)
  \/ PaceDone(w)
  \/ PassEnd(w)

Fairness == \A w \in Workers : WF_vars(Step(w))

\* one request handler and the control channel, threads keep running
SpecFair == Init /\ [][Next]_vars /\ Fairness

\* the engine with a caller of get_status() and get_position() next to it
NextCalls ==
  \/ Next
  \/ GetStatusCond
  \/ GetStatusIndex
  \/ GetStatusLen
  \/ \E o1, o2 \in {"ok", "AttributeError", "IOError"} : GetPosition(o1, o2)

SpecCalls == InitCalls /\ [][NextCalls]_vars

\* a conversion job or a live session, and the engine loading the result
NextPipeline ==
  \/ Convert
  \/ \E ws \in 1..MaxWindow : Smooth(ws)
  \/ Filter
  \/ \E now \in {1, 2} : SaveCommands(now)
  \/ MapFrame
  \/ \E w \in Workers : LoadCommands(w, SavedPath)
  \/ \E w \in Workers : Respond(w)

SpecPipeline == InitPipeline /\ [][NextPipeline]_vars

\* the sequence passes applied to a command list
NextPasses ==
  \/ \E ws \in 1..MaxWindow : Smooth(ws)
  \/ Filter

SpecPasses == InitPasses /\ [][NextPasses]_vars

\* the conversion job on a five-frame recording
SpecRecording == InitRecording /\ [][NextPipeline]_vars

\* the live control loop, frame after frame
NextLive ==
  \/ Tick
  \/ \E open \in {"True", "False"} : ReadHand(open)
  \/ GripperGate
  \/ \E outcome \in {"ok", "raised"} : LiveGripReturn(outcome)

SpecLive == InitLive /\ [][NextLive]_vars

\* ------------------------------------------------------------ type check
TypeOK ==
  /\ svc \in {"none", "ctrl", "dropped"}
  /\ is_connected \in BOOLEAN /\ is_playing \in BOOLEAN
  /\ is_paused \in BOOLEAN
  /\ robot \in {"None", "dobot"}
  /\ \A k \in 1..Len(commands) :
       {"x", "y", "z", "r", "gripper"} \subseteq DOMAIN commands[k]
  /\ current_command_index \in 0..MaxCmds
  /\ probe.op \in {"off", "none", "connect", "get_status", "get_position"}
  /\ workspace \in Workspaces
  /\ stage \in {"off", "tracked", "live", "converted", "failed",
                "smoothed", "filtered", "saved"}
  /\ Len(cmdsOut) <= Len(frames) \/ frames = << >>
  /\ Len(mapped) <= Len(frames)
  /\ Len(disk) <= 1
  /\ \A w \in Workers :
       /\ pc[w] \in AllPcs
       /\ i[w] \in 0..MaxCmds
       /\ cmds[w] \in Files
       /\ ret[w].req \in {"none", "play", "home", "load"}
       /\ ret[w].value \in {"none", "true", "false", "raised"}
       /\ homed[w] \in {"no", "ok", "raised"}
       /\ fault[w] \in {"no", "move", "grip"}
       /\ last_gripper_state \in {"None", "True", "False"}
       /\ is_hand_open \in {"None", "True", "False"}
       /\ gripper_state_change_time \in 0..MaxTime
       /\ current_time \in 0..MaxTime
       /\ clock \in Epoch..MaxTime
       /\ livePc \in {"off", "frame", "gate", "grip"}
       /\ Len(grips) <= MaxGrips
       /\ Len(tries[w]) <= 4
       /\ \A k \in 1..Len(tries[w]) :
            /\ tries[w][k].call \in {"move", "move_alt", "grip", "grip_alt"}
            /\ tries[w][k].result \in
                 {"ok", "TypeError", "IOError", "raised", "AttributeError"}
       /\ stopAt[w] \in
            {"no", "homing", "polling", "paused", "polled", "command"}
       /\ pauseAt[w] \in {"no", "homing", "polling", "polled", "command",
                         "resumed"}

\* ---------------------------------------------------------------- claims
\* handler w dispatches a command in this step: its move_to call is issued
Dispatch(w) == pc[w] = "set_index" /\ pc'[w] = "move"

\* the indices 0 .. n-1 in order
UpTo(n) == [k \in 1..n |-> k - 1]

C2_HomeFailureAborts ==
  \A w \in handlers :
    homed[w] = "raised" =>
      /\ pc[w] = "done" /\ ret[w].value = "false"
      /\ log[w] = << >>
      /\ ~is_playing

\* C3 (as stated): a pause() issued while play() is mid-sequence stops the
\* loop: current_command_index does not change while the pause is in force.
C3_PauseFreezesIndex ==
  [][\A w \in handlers :
       (is_paused /\ is_paused'
          /\ pauseAt[w] \in {"polling", "polled", "command"})
       => current_command_index' = current_command_index]_vars

\* C3 (amended): a pause() issued mid-sequence takes hold at the loop's
\* next poll of is_paused: unless the loop had already polled for a command
\* (that one command is still dispatched), no command is dispatched while
\* the pause is in force; the command dispatched next, after resume(), is
\* the first one not yet dispatched in the pass, and from inside the loop
\* play() never goes back to homing.
C3_PauseThenResume ==
  [][\A w \in handlers :
       /\ (is_paused /\ pauseAt[w] \in {"polling", "command"})
            => ~Dispatch(w)
       /\ Dispatch(w) =>
            /\ i[w] = Len(log[w])
            /\ log[w] = UpTo(i[w])
            /\ current_command_index' = i[w]
       /\ pc[w] \in LoopPcs =>
            /\ pc'[w] \in LoopPcs \cup {"done"}
            /\ homed'[w] = homed[w]]_vars

\* C3 witness: after a pause mid-sequence and a resume, the second command
\* is being moved to, each command dispatched once
C3_ResumedAtNext ==
  \E w \in handlers :
    /\ pauseAt[w] = "resumed" /\ pc[w] = "move"
    /\ i[w] = 1 /\ log[w] = << 0, 1 >>

\* C4: the actuator is accessed by one operation at a time: no two actuator
\* calls are in flight together and at most one play loop runs, also with
\* overlapping play/home requests through RobotService.
C4_ExclusiveActuator ==
  /\ Cardinality({w \in Workers : pc[w] \in ActuatorPcs}) <= 1
  /\ Cardinality({w \in Workers : pc[w] \in LoopPcs}) <= 1

\* C5: a move that fails with an actuator I/O error halts the play loop:
\* play() has returned failure, is_playing is false, the failing command is
\* the last one dispatched and current_command_index is its index.
C5_MoveFaultHalts ==
  \A w \in handlers :
    fault[w] = "move" =>
      /\ pc[w] = "done" /\ ret[w].value = "false"
      /\ ret[w].msg = "Failed to execute command"
      /\ ~is_playing
      /\ current_command_index = i[w]
      /\ log[w] = UpTo(i[w] + 1)

\* C5 witness: the move of the second command failed
C5_SecondMoveFailed ==
  \E w \in handlers : fault[w] = "move" /\ i[w] = 1 /\ pc[w] = "done"

\* C6: a gripper command that fails in every call shape halts the play
\* loop: play() returns failure and no later command is dispatched.
C6_GripFaultHalts ==
  \A w \in handlers :
    fault[w] = "grip" => pc[w] = "done" /\ ret[w].value = "false"

\* C7: play() with no commands loaded returns failure without contacting
\* the actuator: the guard is followed by the return, is_playing is false,
\* no home call and no command were issued.
C7_EmptySequenceRefused ==
  [][\A w \in handlers :
       (pc[w] = "entry" /\ commands = << >> /\ pc'[w] # "entry") =>
         /\ pc'[w] = "done" /\ ret'[w].value = "false"
         /\ ~is_playing'
         /\ homed'[w] = "no" /\ log'[w] = << >>]_vars

\* C7 witness: a connected engine has refused to play an empty sequence
C7_EmptyRefused ==
  \E w \in handlers :
    /\ pc[w] = "done" /\ ret[w].msg = "No commands loaded"
    /\ ret[w].value = "false" /\ homed[w] = "no"

\* C8: pause and stop take effect between commands only: a command that
\* has started its move is left only after its pacing delay (or because
\* its move failed), and once a pause or stop came during a command, no
\* further command is dispatched while that pause is in force, or at all
\* after that stop.
C8_BetweenCommands ==
  [][\A w \in handlers :
       /\ (pc[w] \in CommandPcs /\ pc'[w] \notin CommandPcs) =>
            \/ pc[w] = "pace" /\ pc'[w] \in {"check_playing", "pass_end"}
            \/ /\ pc[w] \in MovePcs /\ pc'[w] = "done"
               /\ ret'[w].value = "false"
       /\ ((is_paused /\ pauseAt[w] = "command") \/ stopAt[w] = "command")
            => ~Dispatch(w)]_vars

\* C8 witness: a pause that came during the first command holds the loop
\* before the second
C8_HeldAfterCommand ==
  \E w \in handlers :
    /\ is_paused /\ pauseAt[w] = "command"
    /\ pc[w] = "paused_sleep" /\ i[w] = 1 /\ log[w] = << 0 >>

\* C10: disconnect() always leaves the engine disconnected, also when the
\* actuator's close call fails.
C10_DisconnectAlwaysDisconnects ==
  svc = "dropped" => ~is_connected

\* the play() of handler w has returned
Returned(w) == pc[w] = "done" /\ ret[w].req = "play"

\* every command of the list was dispatched once, in index order
FullPass(w) == log[w] = UpTo(Len(cmds[w])) /\ cmds[w] = commands

\* C9 (as stated): with loop=false and no fault, a play() that returns
\* success has dispatched every loaded command once, in index order, and
\* the engine is not playing.
C9_SuccessMeansFullPass ==
  \A w \in handlers :
    (Returned(w) /\ ~loop[w] /\ fault[w] = "no" /\ ret[w].value = "true")
      => FullPass(w) /\ ~is_playing

\* C9 (amended): with loop=false, a play() that returns success and saw no
\* stop() has dispatched every loaded command once, in index order, and the
\* engine is not playing; it does return once no pause stays in force.
\* With loop=true the exhausted loop restarts at index 0, and play() returns
\* only after a stop() or with failure.
C9_PlayToTheEnd ==
  /\ [](\A w \in Workers :
          (Returned(w) /\ ~loop[w] /\ stopAt[w] = "no"
             /\ ret[w].value = "true")
            => /\ FullPass(w) /\ cmds[w] # << >>
               /\ ~is_playing
               /\ ret[w].msg = "Playback completed")
  /\ [][\A w \in Workers :
          (pc[w] = "pass_end" /\ pc'[w] # "pass_end") =>
            IF loop[w]
            THEN /\ pc'[w] = "check_playing" /\ i'[w] = 0
                 /\ log'[w] = << >> /\ current_command_index' = 0
            ELSE pc'[w] = "done" /\ FullPass(w)]_vars
  /\ [](\A w \in Workers :
          (Returned(w) /\ loop[w] /\ homed[w] # "no") =>
            \/ ret[w].value = "false"
            \/ stopAt[w] \in {"polling", "paused", "polled", "command"})
  /\ (<>[](~is_paused)) =>
       \A w \in Workers :
         (pc[w] = "entry" /\ ~loop[w]) ~> (pc[w] = "done")

\* C9 witness: a play() with loop=false has returned success after all
\* commands of the longest list, with a pause and resume on the way
C9_PlayedAll ==
  \E w \in handlers :
    /\ Returned(w) /\ ~loop[w] /\ ret[w].value = "true"
    /\ log[w] = UpTo(MaxCmds) /\ pauseAt[w] = "resumed"

\* C11: connect(), home_robot(), load_commands() and play() hand their
\* caller an explicit success/failure value and no exception, whichever
\* actuator call (constructor, home, move_to, grip) or file read raised and
\* whatever the class of the exception.
C11_ExplicitResult ==
  /\ \A w \in handlers :
       /\ ret[w].value # "raised"
       /\ pc[w] = "done" => ret[w].value \in {"true", "false"}
  /\ probe.op = "connect" => probe.value \in {"true", "false"}

\* C11 witness: connect() has reported a failed constructor call while a
\* play() has reported the move that raised an I/O error
C11_FailuresReported ==
  /\ probe.op = "connect" /\ probe.value = "false"
  /\ \E w \in handlers :
       Returned(w) /\ ret[w].value = "false" /\ fault[w] = "move"

\* C12: get_status() and get_position() never raise, and get_position()
\* answers a failing pose call of the actuator with a pose: the default
\* one (or a last known one).
C12_StatusAndPositionSafe ==
  /\ probe.op \in {"get_status", "get_position"} => probe.value # "raised"
  /\ (probe.op = "get_position" /\ probe.failed)
       => probe.value \in {"pose", "default"}

\* --------------------------------------------------- converter properties
\* the frames of the tracking file that show the hand, in order: command k
\* of the converted list is made from Shown[k]
Shown == SelectSeq(frames, HasHand)

\* all five finger predicates of the converter hold
AllExtended(hand) == Len(hand) >= 21 /\ ExtendedFingers(hand) = 5

\* a closed fist: thumb tip x <= thumb MCP x, every other tip below its PIP
Fist(hand) ==
  /\ Len(hand) >= 21
  /\ Lm(hand, 4).x <= Lm(hand, 2).x
  /\ \A t \in {8, 12, 16, 20} : Lm(hand, t).y > Lm(hand, t - 2).y

\* C13: the command converted from a hand with all five fingers extended has
\* gripper = 0 (open), the command converted from a closed fist has
\* gripper = 1 (closed)
C13_GripperFollowsHand ==
  stage = "converted" =>
    \A k \in 1..Len(cmdsOut) :
      /\ AllExtended(Shown[k].hand) => cmdsOut[k].gripper = 0
      /\ Fist(Shown[k].hand) => cmdsOut[k].gripper = 1

\* the gripper states of a command list with repeated neighbours merged:
\* the list's gripper transitions
RECURSIVE GripperRuns(_)
GripperRuns(list) ==
  IF Len(list) <= 1 THEN [k \in 1..Len(list) |-> list[k].gripper]
  ELSE IF list[1].gripper = list[2].gripper THEN GripperRuns(Tail(list))
  ELSE << list[1].gripper >> \o GripperRuns(Tail(list))

\* the command is an element of the list
Retained(cmd, list) == \E j \in 1..Len(list) : list[j] = cmd

\* C14: filter_minimal_movement keeps every command whose gripper state
\* differs from the one of the command just before it in the input, also when
\* the position is the same, and the gripper transitions of the output are
\* those of the input
C14_GripperChangesKept ==
  stage = "filtered" =>
    /\ \A k \in 2..Len(cmdsIn) :
         cmdsIn[k].gripper # cmdsIn[k - 1].gripper
           => Retained(cmdsIn[k], cmdsOut)
    /\ GripperRuns(cmdsOut) = GripperRuns(cmdsIn)

\* a command that changes the gripper at an unchanged position went through
\* the filter, and the filter dropped some other command
C14_ChangeAtSamePosition ==
  /\ stage = "filtered"
  /\ Len(cmdsOut) < Len(cmdsIn)
  /\ \E k \in 2..Len(cmdsIn) :
       /\ cmdsIn[k].gripper # cmdsIn[k - 1].gripper
       /\ Distance2(cmdsIn[k], cmdsIn[k - 1]) = 0
       /\ Retained(cmdsIn[k], cmdsOut)

\* the gripper state is the same in every command of the list
SameGripper(list) ==
  \A k \in 1..Len(list) : list[k].gripper = list[1].gripper

\* C15: when no command is more than 1 mm away from the command before it
\* and the gripper never changes, filter_minimal_movement with the default
\* threshold retains exactly the first command
C15_SmallStepsCollapse ==
  (/\ stage = "filtered"
   /\ cmdsIn # << >>
   /\ SameGripper(cmdsIn)
   /\ \A k \in 2..Len(cmdsIn) :
        Distance2(cmdsIn[k], cmdsIn[k - 1]) <= 100 * 100)
    => cmdsOut = << cmdsIn[1] >>

\* C15, amended: when every command is less than 2.0 mm away from the first
\* command (for one, never more than 1 mm from it) and the gripper never
\* changes, filter_minimal_movement with the default threshold retains
\* exactly the first command of a non-empty list
C15_NearFirstCollapse ==
  (/\ stage = "filtered"
   /\ cmdsIn # << >>
   /\ SameGripper(cmdsIn)
   /\ \A k \in 2..Len(cmdsIn) :
        Distance2(cmdsIn[k], cmdsIn[1]) < MinDistance * MinDistance)
    => cmdsOut = << cmdsIn[1] >>

\* three or more commands that stay near the first one, not all at its
\* position, were filtered down to the first
C15_CollapsedToFirst ==
  /\ stage = "filtered"
  /\ Len(cmdsIn) >= 3
  /\ SameGripper(cmdsIn)
  /\ \A k \in 2..Len(cmdsIn) :
       Distance2(cmdsIn[k], cmdsIn[1]) < MinDistance * MinDistance
  /\ \E k \in 2..Len(cmdsIn) : Distance2(cmdsIn[k], cmdsIn[1]) > 0
  /\ cmdsOut = << cmdsIn[1] >>

\* the command lies in the workspace on all three axes
InWorkspace(ws, c) ==
  /\ ws.x_min <= c.x /\ c.x <= ws.x_max
  /\ ws.y_min <= c.y /\ c.y <= ws.y_max
  /\ ws.z_min <= c.z /\ c.z <= ws.z_max

\* the position map_wrist_to_xyz returned lies in the workspace
MappedInWorkspace(ws, m) ==
  /\ ws.x_min * m.xd <= m.x /\ m.x <= ws.x_max * m.xd
  /\ ws.y_min * m.yd <= m.y /\ m.y <= ws.y_max * m.yd
  /\ ws.z_min * m.zd <= m.z /\ m.z <= ws.z_max * m.zd

\* the span or the wrist of the hand lies outside its nominal domain
OutOfDomain(hand) ==
  \/ HandSpan(hand) < SpanNear \/ HandSpan(hand) > SpanFar
  \/ Lm(hand, 0).x < 0 \/ Lm(hand, 0).x > 100
  \/ Lm(hand, 0).y < 0 \/ Lm(hand, 0).y > 100

\* C16: every command the converter produces (converted, then smoothed, then
\* filtered) has x, y and z inside the configured workspace, whatever the
\* landmarks are, and so has every position the live map_wrist_to_xyz returns
C16_WithinWorkspace ==
  /\ \A k \in 1..Len(cmdsOut) : InWorkspace(workspace, cmdsOut[k])
  /\ \A k \in 1..Len(mapped) : MappedInWorkspace(workspace, mapped[k].at)

\* a frame whose wrist and span are both outside their domains went through
\* conversion, smoothing and filtering and its command sits on the bounds
C16_OutsideInputClamped ==
  /\ stage = "filtered"
  /\ \E k \in 1..Len(Shown) : \E j \in 1..Len(cmdsOut) :
       /\ cmdsOut[j].frame = Shown[k].frame_number
       /\ Lm(Shown[k].hand, 0).x > 100
       /\ HandSpan(Shown[k].hand) < SpanNear
       /\ cmdsOut[j].y = workspace.y_max
       /\ cmdsOut[j].x = workspace.x_max

\* C17: a hand span of 0.08 or less is mapped to x_max, one of 0.25 or more
\* to x_min, and of two hands the one with the larger span never gets the
\* larger robot_x, in the converter and in the live map_wrist_to_xyz
C17_DepthMapping ==
  /\ stage = "converted" =>
       \A k \in 1..Len(cmdsOut) :
         LET s == HandSpan(Shown[k].hand) IN
           /\ s <= SpanNear => cmdsOut[k].x = workspace.x_max
           /\ s >= SpanFar => cmdsOut[k].x = workspace.x_min
           /\ \A j \in 1..Len(cmdsOut) :
                HandSpan(Shown[j].hand) <= s => cmdsOut[j].x >= cmdsOut[k].x
  /\ \A k \in 1..Len(mapped) :
       LET s == HandSpan(Shown[k].hand)
           m == mapped[k].at
       IN /\ s <= SpanNear => m.x = workspace.x_max * m.xd
          /\ s >= SpanFar => m.x = workspace.x_min * m.xd
          /\ \A j \in 1..Len(mapped) :
               HandSpan(Shown[j].hand) <= s => mapped[j].at.x >= m.x

\* a near hand and a hand at middle distance were converted: the first sits
\* at x_max, the second strictly inside the range
C17_NearAndBetween ==
  /\ stage = "converted"
  /\ Len(cmdsOut) = 2
  /\ HandSpan(Shown[1].hand) < SpanNear
  /\ HandSpan(Shown[2].hand) > SpanNear
  /\ HandSpan(Shown[2].hand) < SpanFar
  /\ cmdsOut[1].x = workspace.x_max
  /\ cmdsOut[2].x < workspace.x_max
  /\ cmdsOut[2].x > workspace.x_min

\* the wrist x of the hand lies in [0, 1]
WristInFrame(hand) == Lm(hand, 0).x >= 0 /\ Lm(hand, 0).x <= 100

\* C18: robot_y lies in [y_min, y_max] for every wrist, and of two wrists
\* with x in [0, 1] the one further right never gets the smaller robot_y, in
\* the converter and in the live map_wrist_to_xyz
C18_LateralMapping ==
  /\ stage = "converted" =>
       \A k \in 1..Len(cmdsOut) :
         /\ workspace.y_min <= cmdsOut[k].y
         /\ cmdsOut[k].y <= workspace.y_max
         /\ \A j \in 1..Len(cmdsOut) :
              (/\ WristInFrame(Shown[j].hand)
               /\ WristInFrame(Shown[k].hand)
               /\ Lm(Shown[j].hand, 0).x <= Lm(Shown[k].hand, 0).x)
                => cmdsOut[j].y <= cmdsOut[k].y
  /\ \A k \in 1..Len(mapped) :
       LET m == mapped[k].at IN
         /\ workspace.y_min * m.yd <= m.y
         /\ m.y <= workspace.y_max * m.yd
         /\ \A j \in 1..Len(mapped) :
              (/\ WristInFrame(Shown[j].hand)
               /\ WristInFrame(Shown[k].hand)
               /\ Lm(Shown[j].hand, 0).x <= Lm(Shown[k].hand, 0).x)
                => mapped[j].at.y <= m.y

\* two wrists inside the frame were converted, the second further right and
\* higher up than the first and with the larger robot_y
C18_FurtherRight ==
  /\ stage = "converted"
  /\ Len(cmdsOut) = 2
  /\ WristInFrame(Shown[1].hand)
  /\ WristInFrame(Shown[2].hand)
  /\ Lm(Shown[1].hand, 0).x < Lm(Shown[2].hand, 0).x
  /\ Lm(Shown[1].hand, 0).y > Lm(Shown[2].hand, 0).y
  /\ cmdsOut[1].y < cmdsOut[2].y

\* x, y and z are the same in every command of the list
ConstantPosition(list) ==
  \A k \in 1..Len(list) :
    /\ list[k].x = list[1].x
    /\ list[k].y = list[1].y
    /\ list[k].z = list[1].z

LoadedSaved(w) ==
  /\ pc[w] = "done"
  /\ ret[w] = [req |-> "load", value |-> "true", msg |-> "saved"]

\* the two commands agree in all eight fields
SameFields(a, b) ==
  /\ a.frame = b.frame /\ a.timestamp = b.timestamp
  /\ a.x = b.x /\ a.y = b.y /\ a.z = b.z /\ a.r = b.r
  /\ a.gripper = b.gripper /\ a.confidence = b.confidence

\* C20: the command list load_commands reads back from a file written by
\* save_commands has the commands of the saved list, in the same order, each
\* with the same frame, timestamp, x, y, z, r, gripper and confidence
C20_RoundTrip ==
  \A w \in handlers :
    LoadedSaved(w) =>
      /\ Len(commands) = Len(cmdsOut)
      /\ \A k \in 1..Len(cmdsOut) : SameFields(commands[k], cmdsOut[k])

\* a saved list with a negative coordinate, a coordinate with two decimals
\* and one that is a whole number was read back
C20_ReadBack ==
  /\ LoadedSaved(1)
  /\ Len(commands) >= 1
  /\ \E k \in 1..Len(commands) :
       /\ commands[k].y < 0
       /\ commands[k].x % 10 # 0
       /\ commands[k].z % 100 = 0
       /\ commands[k].confidence < 100

\* C21: the recording with a closed fist in frames 0-2 and an open hand in
\* frames 3-4 (span 0.25, wrist at (0.5, 0.5), default workspace), converted,
\* smoothed and filtered, leaves exactly the commands of frame 0 and frame 3,
\* each at x = 200, y = 0, z = 150
C21_FistThenOpenScenario ==
  (/\ stage = "filtered"
   /\ frames = FrameList([k \in DOMAIN FistThenOpen |->
                            RecordedHand(FistThenOpen[k])]))
    => /\ Len(cmdsOut) = 2
       /\ cmdsOut[1].frame = 0
       /\ cmdsOut[2].frame = 3
       /\ \A k \in 1..2 :
            /\ cmdsOut[k].x = 20000
            /\ cmdsOut[k].y = 0
            /\ cmdsOut[k].z = 15000

\* the five commands of that recording were smoothed and then filtered down
\* to two with different gripper states
C21_ScenarioFiltered ==
  /\ stage = "filtered"
  /\ frames = FrameList([k \in DOMAIN FistThenOpen |->
                           RecordedHand(FistThenOpen[k])])
  /\ Len(cmdsIn) = 5
  /\ Len(cmdsOut) = 2
  /\ cmdsOut[1].gripper # cmdsOut[2].gripper

\* the frames of the tracking file whose hand has all 21 landmarks
Complete == SelectSeq(frames, LAMBDA f : Len(f.hand) >= 21)

\* C22: a frame whose hand has fewer than 21 landmarks is passed over:
\* convert_to_robot_commands does not raise and returns the commands of all
\* other frames of the batch, and none for that frame
C22_ShortHandSkipped ==
  stage \in {"converted", "failed"} =>
    /\ stage = "converted"
    /\ Len(cmdsOut) = Len(Complete)
    /\ \A k \in 1..Len(Complete) : cmdsOut[k].frame = Complete[k].frame_number

\* the command of `out` that was retained last before command k of `list`
\* (commands carry their frame number, rising along the list)
LastRetainedBefore(out, list, k) ==
  LET before == {j \in 1..Len(out) : out[j].frame < list[k].frame}
  IN out[CHOOSE j \in before : \A h \in before : h <= j]

\* the command moved away from the retained one: further than the threshold
\* (strict), or at least as far as the threshold
MovedAway(cmd, last, strict) ==
  IF strict THEN Distance2(cmd, last) > MinDistance * MinDistance
  ELSE Distance2(cmd, last) >= MinDistance * MinDistance

\* `out` is what the one-pass greedy filter makes of `list`: the first
\* command, then every command that moved away from the last retained one or
\* differs from it in the gripper state, and no other, in the order of `list`
GreedyFilter(out, list, strict) ==
  /\ list = << >> => out = << >>
  /\ list # << >> => Len(out) >= 1 /\ out[1] = list[1]
  /\ \A j \in 1..Len(out) : Retained(out[j], list)
  /\ \A j \in 2..Len(out) : out[j - 1].frame < out[j].frame
  /\ \A k \in 2..Len(list) :
       Retained(list[k], out) <=>
         LET last == LastRetainedBefore(out, list, k)
         IN \/ MovedAway(list[k], last, strict)
            \/ list[k].gripper # last.gripper

\* C23: filter_minimal_movement retains the first command and then exactly
\* the commands whose distance from the last retained command is strictly
\* greater than the threshold of 2.0 mm or whose gripper differs from its
\* gripper; the output is a subsequence of the input in the same order
C23_GreedyBeyondThreshold ==
  stage = "filtered" => GreedyFilter(cmdsOut, cmdsIn, TRUE)

\* C23, amended: filter_minimal_movement retains the first command and then
\* exactly the commands whose distance from the last retained command is
\* 2.0 mm or more, or whose gripper differs from its gripper; the output is a
\* subsequence of the input in the same order
C23_GreedyFromThreshold ==
  stage = "filtered" => GreedyFilter(cmdsOut, cmdsIn, FALSE)

\* a command exactly 2.0 mm from the last retained one, with the same
\* gripper, was retained and a nearer one was dropped
C23_KeptAtThreshold ==
  /\ stage = "filtered"
  /\ Len(cmdsOut) < Len(cmdsIn)
  /\ \E j \in 2..Len(cmdsOut) :
       /\ Distance2(cmdsOut[j], cmdsOut[j - 1]) = MinDistance * MinDistance
       /\ cmdsOut[j].gripper = cmdsOut[j - 1].gripper

\* the coordinate c of `out` is the mean of c over the commands lo .. hi of
\* `list`: exactly, or to the nearest hundredth
IsMean(out, list, c, lo, hi, exact) ==
  LET n == hi - lo + 1
      off == n * out[c] - SumOf(list, c, lo, hi)
  IN IF exact THEN off = 0 ELSE 2 * off <= n /\ -2 * off <= n

\* command k of `out` is command k of `list` with x, y, z replaced by the
\* means over the window of size w centred on k and cut at the list's ends
WindowMean(out, list, k, w, exact) ==
  LET lo == Max(1, k - w \div 2)
      hi == Min(Len(list), k + w \div 2)
  IN /\ \A c \in {"x", "y", "z"} : IsMean(out[k], list, c, lo, hi, exact)
     /\ \A c \in {"frame", "timestamp", "r", "gripper", "confidence"} :
          out[k][c] = list[k][c]

\* C24: smooth_commands returns a list of the same length in which, whatever
\* the length (also below the window size), x, y, z of command i are the
\* arithmetic means over the window centred on i and cut at the ends, and
\* gripper, frame, timestamp, r and confidence of command i are unchanged
C24_WindowMeans ==
  stage = "smoothed" =>
    /\ Len(cmdsOut) = Len(cmdsIn)
    /\ \A k \in 1..Len(cmdsIn) : WindowMean(cmdsOut, cmdsIn, k, window, TRUE)

\* C24, amended: smooth_commands returns a list shorter than the window size
\* as it is; for any other list it returns one of the same length in which
\* x, y, z of command i are the means over the window centred on i and cut at
\* the ends, rounded to two decimals, and gripper, frame, timestamp, r and
\* confidence of command i are unchanged
C24_RoundedMeansFromWindow ==
  stage = "smoothed" =>
    IF Len(cmdsIn) < window THEN cmdsOut = cmdsIn
    ELSE /\ Len(cmdsOut) = Len(cmdsIn)
         /\ \A k \in 1..Len(cmdsIn) :
              WindowMean(cmdsOut, cmdsIn, k, window, FALSE)

\* a list with a step in it, as long as the window, was averaged, and the
\* rounded mean differs from the input
C24_StepAveraged ==
  /\ stage = "smoothed"
  /\ window > 1
  /\ Len(cmdsIn) >= window
  /\ \E k \in 1..Len(cmdsIn) : cmdsOut[k].x # cmdsIn[k].x

\* handler w goes on to the step `to` of a command from a step in `from`
Follows(w, to, from) == (pc'[w] \in to /\ pc[w] \notin to) => pc[w] \in from

\* C25: within a pass the commands are dispatched in index order, none
\* skipped and none repeated; for each command the move goes to the
\* command's (x, y, z, r), the gripper call that follows closes exactly when
\* the gripper field is 1, the pacing delay follows the gripper call, and
\* the next command is only turned to after the delay
C25_OrderedDispatch ==
  [][\A w \in handlers :
       /\ Dispatch(w) =>
            /\ log[w] = UpTo(i[w])
            /\ log'[w] = UpTo(i[w] + 1)
            /\ current_command_index' = i[w]
            /\ i'[w] = i[w]
       /\ Follows(w, {"move"}, {"set_index"})
       /\ Follows(w, {"move_alt"}, {"move"})
       /\ Follows(w, GripPcs, MovePcs \cup GripPcs)
       /\ Follows(w, {"pace"}, MovePcs \cup GripPcs)
       /\ Follows(w, {"check_playing"}, {"start", "pace", "pass_end"})
       /\ (pc'[w] \in CommandPcs /\ pc[w] \in CommandPcs) => i'[w] = i[w]
       /\ pc'[w] \in MovePcs =>
            LET command == cmds'[w][i'[w] + 1]
            IN Call(w)' = [op |-> "move_to",
                           at |-> << command.x, command.y, command.z,
                                     command.r >>]
       /\ pc'[w] \in GripPcs =>
            Call(w)' = [op |-> "grip",
                        enable |-> (cmds'[w][i'[w] + 1].gripper = 1)]
  ]_vars

\* the second command of a pass has been moved to, gripped (closing) and is
\* being paced, after the first went through its move, grip and delay
C25_SecondCommandPaced ==
  /\ pc[1] = "pace"
  /\ i[1] = 1
  /\ log[1] = << 0, 1 >>
  /\ cmds[1][2].gripper = 1
  /\ is_playing

\* play() returned because _execute_command returned False
Failed(w) == pc[w] = "done" /\ ret[w].msg = "Failed to execute command"

\* the calls among `calls` the actuator accepted for the current command
Accepted(w, calls) ==
  Cardinality({k \in 1..Len(tries[w]) :
                 tries[w][k].call \in calls /\ tries[w][k].result = "ok"})

\* how a call other than a call shape mismatch ends when it is not accepted
Rejections == {"IOError", "raised", "AttributeError"}

\* call `first` that ended with one of `result` was followed by call `other`
RetriedWith(w, first, result, other) ==
  \A k \in 1..Len(tries[w]) :
    (tries[w][k].call = first /\ tries[w][k].result \in result) =>
      IF k = Len(tries[w]) THEN pc[w] = other
      ELSE tries[w][k + 1].call = other

\* the last call of the current command was one of `calls` and ended with
\* one of `results`
EndedWith(w, calls, results) ==
  /\ Len(tries[w]) > 0
  /\ tries[w][Len(tries[w])].call \in calls
  /\ tries[w][Len(tries[w])].result \in results

\* C26 as stated: a rejected move_to(..., wait=True) or grip(enable=...) is
\* retried in the other call shape, a command whose calls were accepted in
\* one shape has exactly one accepted move and one accepted gripper call,
\* and the command fails only if the alternate move shape also failed.
C26_FailsOnlyAfterAlternate ==
  Tracked =>
    \A w \in handlers :
      /\ RetriedWith(w, "move", {"TypeError"}, "move_alt")
      /\ RetriedWith(w, "grip", Rejections, "grip_alt")
      /\ (pc[w] = "pace" /\ Accepted(w, GripPcs) > 0) =>
           Accepted(w, MovePcs) = 1 /\ Accepted(w, GripPcs) = 1
      /\ Failed(w) => EndedWith(w, {"move_alt"}, Rejections)

\* C26 amended: move_to without the wait argument is tried after a TypeError
\* of the first shape and after nothing else, the positional grip after any
\* exception of grip(enable=...); a command that reaches its pacing sleep
\* has exactly one accepted move and at most one accepted gripper call;
\* the command fails when the first move raises anything but TypeError (no
\* retry) or when the alternate move raises, and never because of the
\* gripper.
C26_RetryOnShapeMismatch ==
  Tracked =>
    \A w \in handlers :
      /\ RetriedWith(w, "move", {"TypeError"}, "move_alt")
      /\ RetriedWith(w, "grip", Rejections, "grip_alt")
      /\ \A k \in 1..Len(tries[w]) :
           tries[w][k].call = "move_alt" =>
             k = 2 /\ tries[w][1] = [call |-> "move", result |-> "TypeError"]
      /\ pc[w] = "pace" =>
           /\ Accepted(w, MovePcs) = 1
           /\ Accepted(w, GripPcs) <= 1
           /\ Accepted(w, GripPcs) = 0 =>
                EndedWith(w, {"grip_alt"}, Rejections)
      /\ Failed(w) =>
           \/ EndedWith(w, {"move"}, Rejections)
           \/ EndedWith(w, {"move_alt"}, Rejections)

\* C26 witness: both first shapes were rejected, both alternates accepted,
\* and the command is at its pacing sleep
C26_BothRetried ==
  \E w \in handlers :
    /\ pc[w] = "pace"
    /\ tries[w] = << [call |-> "move", result |-> "TypeError"],
                     [call |-> "move_alt", result |-> "ok"],
                     [call |-> "grip", result |-> "raised"],
                     [call |-> "grip_alt", result |-> "ok"] >>

\* the gripper calls of the live session the actuator accepted
AcceptedGrips == SelectSeq(grips, LAMBDA g : g.result = "ok")

\* C27: in the live control loop a gripper command is issued only when the
\* hand state of the frame differs from the last accepted gripper state
\* and more than the dwell time (0.3 s) passed since the last accepted
\* change; two consecutive accepted changes are more than the dwell time
\* apart and alternate; the accepted state and its time stamp are those of
\* the last accepted call, so a failed call left them as they were.
C27_GripperDwell ==
  /\ livePc = "grip" =>
       /\ is_hand_open # last_gripper_state
       /\ current_time - gripper_state_change_time
            > min_gripper_state_duration
  /\ \A k \in 1..Len(grips) :
       grips[k].enable = (IF grips[k].state = "True" THEN "False" ELSE "True")
  /\ \A k \in 1..(Len(AcceptedGrips) - 1) :
       /\ AcceptedGrips[k + 1].time - AcceptedGrips[k].time
            > min_gripper_state_duration
       /\ AcceptedGrips[k + 1].state # AcceptedGrips[k].state
  /\ IF AcceptedGrips = << >>
     THEN last_gripper_state = "None" /\ gripper_state_change_time = 0
     ELSE /\ last_gripper_state = AcceptedGrips[Len(AcceptedGrips)].state
          /\ gripper_state_change_time
               = AcceptedGrips[Len(AcceptedGrips)].time

\* C27 witness: a gripper change was accepted, the next call failed, and the
\* change was accepted on a later frame
C27_FailedBetweenChanges ==
  /\ Len(grips) = 3
  /\ grips[1].result = "ok"
  /\ grips[2].result = "raised"
  /\ grips[3].result = "ok"
  /\ livePc = "frame"

\* C28: whenever a non-empty command sequence is loaded,
\* 0 <= current_command_index < len(commands), also when load_commands
\* replaces the sequence while a play loop runs, and a progress that
\* get_status() reported lies in [0, 100].
C28_IndexWithinSequence ==
  /\ Len(commands) > 0 =>
       0 <= current_command_index /\ current_command_index < Len(commands)
  /\ probe.value = "status" => probe.progress \in 0..100

\* C29: a stop() or a pause() that arrives while play() is still homing is
\* not lost: after such a stop the loop dispatches no command, and after
\* such a pause it dispatches none until resume().
C29_RequestDuringHomingKept ==
  \A w \in handlers :
    /\ stopAt[w] = "homing" => log[w] = << >>
    /\ pauseAt[w] = "homing" => log[w] = << >>

\* C30: if stop() is issued while the play loop is paused, the loop returns
\* without dispatching any further command, whichever way stop()'s two
\* flag writes interleave with the loop's polling: unless a resume() came
\* in between, the loop is in no command after such a stop.
C30_StopWhilePausedReturns ==
  \A w \in handlers :
    (stopAt[w] = "paused" /\ pauseAt[w] # "resumed") =>
      pc[w] \notin CommandPcs

====
